---------------------------- MODULE Spec2Model ----------------------------
(***************************************************************************)
(* A model of the tiered content-risk decision engine:                     *)
(*   L1  core/l1_shield/frame_processor.py   FrameProcessor.process_frame  *)
(*   L2  core/l2_brain/llm_client.py         ContentReviewer               *)
(*   L3  core/l3_policy/risk_engine.py       RiskEngine.detect_and_judge   *)
(*                                                                         *)
(* Strings.  The module is ASCII only, so the Chinese literals of the      *)
(* source are written as opaque stand-ins:                                 *)
(*   action   "block" = "拦截"      "pass" = "通过"                        *)
(*   tokens   "jia_v" = 加v   "siliao" = 私聊   "fuli" = 福利   "kan" = 看 *)
(*            "xiazhu" = 下注   "yue" = 约                                 *)
(*   reasons  "clean" = 画面极其纯净, "insufficient" = 证据不足（已抑制误报）, *)
(*            "below" = 有风险证据，但未达拦截阈值, "hit" = L2(..) 证据命中拦截, *)
(*            "hard" = L1 强证据命中, "vl_off" = VL禁用或限频,              *)
(*            "strong" = 结构化强证据, "rule" = 规则审计（未触发VL）,        *)
(*            "weak" = 证据不足/常规话术, "img_fail" = 图片读取失败          *)
(* A reason is a sequence of strings: the fixed text, then the values the  *)
(* source formats into it.                                                 *)
(* A stand-in is one symbol: the letters inside it are not characters of   *)
(* the text it stands for.                                                 *)
(*                                                                         *)
(* Text.  A recognised text span is a sequence of tokens; the string it    *)
(* stands for is the tokens joined by single spaces.  Every pattern of the *)
(* rule extractor is decided per token by the tables below; the token      *)
(* vocabulary is chosen so that whether a pattern matches a text is        *)
(* whether it matches one of its tokens.  The text of a match is the       *)
(* token (the long-digit pattern of the source can run on over a space     *)
(* into the digits of the next token).                                     *)
(*                                                                         *)
(* Time.  time.time() is the integer variable now, advanced by Tick        *)
(* between calls and while a backend call is awaited; the local steps of   *)
(* a call take no time at this grain.                                      *)
(***************************************************************************)
EXTENDS Integers, Sequences, FiniteSets, TLC

VARIABLES
    now,            \* time.time()
    vl_enabled,     \* ContentReviewer.vl_enabled (an API key is present and VL is on)
    policy_rules,   \* RiskEngine.policy_rules
    l2_cache,       \* RiskEngine._l2_cache      key -> (ts, res)
    vl_cache,       \* ContentReviewer._vl_cache key -> (ts, res)
    vl_call_times,  \* ContentReviewer._vl_call_times
    vl_issued,      \* when chat.completions.create was invoked, over the last window
    pc,             \* per worker: where its detect_and_judge call stands
    req,            \* per worker: the locals of its detect_and_judge call
    final,          \* per worker: l1_res["final_decision"] of its last returned call
    obs,            \* per worker: what its last step did to the caches and the backend
    prev,           \* per frame: the recent decisions that went through fusion
    begun           \* the number of detect_and_judge calls begun

vars == <<now, vl_enabled, policy_rules, l2_cache, vl_cache, vl_call_times,
          vl_issued, pc, req, final, obs, prev, begun>>

(***************************************************************************)
(* Bounds of the model and configuration.                                  *)
(***************************************************************************)
\* The clock stops at MaxTime and at most MaxRequests calls are begun (Spec);
\* MaxCacheTime and MaxCacheRequests are the same bounds of SpecCache.
MaxTime == 2
MaxRequests == 2
MaxCacheTime == 6
MaxCacheRequests == 3
\* SpecFuse: the longest OCR span, in tokens, and the largest override.
MaxSpanLen == 2
MaxThreshold == 110

\* Constructor parameters of ContentReviewer and RiskEngine.  The cooldowns
\* are the defaults of the source; the time-to-live, the calls-per-minute
\* ceiling and the limiter's window (60 in the source) are scaled down so
\* that expiry and the ceiling are reached within MaxCacheTime, keeping the
\* order cooldown < time-to-live < window of the defaults (2 < 30 < 60).
l2_cooldown == 2
vl_cooldown_sec == 2
vl_cache_ttl_sec == 3
vl_max_calls_per_min == 1
VL_WINDOW_SEC == 5

\* Program constants.
HARD_BLOCK_SCORE == 95
MAX_SCORE_WITHOUT_EVIDENCE == 30
DEFAULT_THRESHOLD == 80
FALLBACK_THRESHOLD == 999
VL_ESCALATION_FLOOR == 60
STRONG_RULE_SCORE == 90
MAX_EVIDENCE_SPANS == 10

\* Python's None for an optional record is the empty sequence, Some(x) is <<x>>;
\* a missing fingerprint (md5 is None) is the empty string.
None == <<>>
Some(x) == <<x>>
NoMd5 == ""

Workers == {"w1", "w2"}

(***************************************************************************)
(* Small helpers.                                                          *)
(***************************************************************************)
Min(a, b) == IF a <= b THEN a ELSE b

\* Python's s[:n] on a sequence.
Take(s, n) == IF Len(s) <= n THEN s ELSE SubSeq(s, 1, n)

RECURSIVE Flatten(_)
Flatten(ss) == IF ss = <<>> THEN <<>> ELSE Head(ss) \o Flatten(Tail(ss))

\* The order-preserving de-duplication of _extract_rule (lines 114-119).
RECURSIVE Dedup(_, _)
Dedup(s, seen) ==
    IF s = <<>> THEN <<>>
    ELSE IF Head(s) \in seen THEN Dedup(Tail(s), seen)
         ELSE <<Head(s)>> \o Dedup(Tail(s), seen \cup {Head(s)})

\* re.search on a token sequence: the leftmost token of the class, if any.
FirstIn(s, class) ==
    LET hits == SelectSeq(s, LAMBDA t : t \in class)
    IN  IF hits = <<>> THEN <<>> ELSE <<Head(hits)>>

(***************************************************************************)
(* L1: the frames of the model and FrameProcessor.process_frame.           *)
(* What YOLO, the QR detector, OCR and the skin mask return for a frame is *)
(* the frame table; process_frame's own logic is modelled on top of it.    *)
(***************************************************************************)
Frames == {"f_knife", "f_contact", "f_skin", "f_clean", "f_bad"}

\* cv2.imread(frame_path) is not None; the file can be opened and hashed.
Readable(f) == f # "f_bad"

\* self.model.names of the boxes YOLO returns.
YoloNames(f) ==
    CASE f = "f_knife" -> <<"Knife", " person">>
      [] OTHER         -> <<>>

\* _qr_fast_detect(img)["found"]
QrFound(f) == f = "f_knife"

\* OCR output: the recognised spans, each a sequence of tokens.
OcrTexts(f) ==
    CASE f = "f_knife"   -> << <<"xiazhu">> >>
      [] f = "f_contact" -> << <<"jia_v", "kan", "fuli">>, <<"siliao">> >>
      [] OTHER           -> <<>>

\* _skin_ratio(img), in percent.
SkinRatio(f) ==
    CASE f = "f_knife" -> 40
      [] f = "f_skin"  -> 18
      [] OTHER         -> 5

skin_ratio_trigger == 18

\* str.strip() and str.lower() on the label alphabet of the model.
Strip(s) == CASE s = " person" -> "person" [] s = " " -> "" [] OTHER -> s
Lower(s) == CASE s = "Knife" -> "knife" [] OTHER -> s

EmptyDict == [k \in {} |-> TRUE]

process_frame(f) ==
    IF ~Readable(f)
    THEN [frame_path |-> f, objects |-> <<>>, texts |-> <<>>,
          hit_summary |-> EmptyDict, risk_flag |-> FALSE]
    ELSE LET yolo    == [i \in 1..Len(YoloNames(f)) |-> Strip(YoloNames(f)[i])]
             objects == IF QrFound(f) THEN Append(yolo, "qr_code") ELSE yolo
             risky   == {"risky_content", "qr_code", "wechat_id", "wechat_qr",
                         "knife", "scissors", "gun", "fire"}
         IN  [frame_path |-> f,
              objects |-> objects,
              texts |-> OcrTexts(f),
              hit_summary |-> [skin_ratio |-> SkinRatio(f),
                               skin_trigger |-> SkinRatio(f) >= skin_ratio_trigger,
                               qr_found |-> QrFound(f)],
              risk_flag |-> QrFound(f) \/ \E i \in 1..Len(yolo) : yolo[i] \in risky]

(***************************************************************************)
(* L3 helpers: labels and fingerprints.                                    *)
(***************************************************************************)
HARD_BLOCK_LABELS == {"risky_content", "qr_code", "wechat_id", "wechat_qr",
                      "knife", "scissors", "gun", "fire"}

_normalize_label(label) == Lower(Strip(label))

\* The labels of _extract_objects_labels; empty labels are skipped.
_extract_objects_labels(l1_objects) ==
    SelectSeq([i \in 1..Len(l1_objects) |-> _normalize_label(l1_objects[i])],
              LAMBDA lab : lab # "")

\* RiskEngine._frame_md5 and ContentReviewer._file_md5: the frame's
\* fingerprint, None when the file cannot be read.
_frame_md5(f) == IF Readable(f) THEN f ELSE NoMd5

(***************************************************************************)
(* L2: the rule extractor, ContentReviewer._extract_rule.                  *)
(* The token vocabulary and, per pattern of the source, the tokens it      *)
(* matches and the text of the match.                                      *)
(***************************************************************************)
Tokens == {"jia_v", "siliao", "fuli", "kan", "xiazhu", "yue",
           "13812345678", "1381234567O", "12345678", "qq12345"}

\* _normalize_text: O,o -> 0 and I,l,丨 -> 1 (the span is already stripped).
_normalize_text(t) == IF t = "1381234567O" THEN "13812345670" ELSE t

\* RE_MONEY_GAMBLE: 下注 is one of its keywords.
RE_MONEY_GAMBLE == {"xiazhu"}
\* RE_WECHAT_HINT: 加v is one of its alternatives.
RE_WECHAT_HINT == {"jia_v"}
\* RE_QQ: qq followed by 5 to 12 digits.
RE_QQ == {"qq12345"}
\* RE_PHONE_STRICT: 1[3-9] and nine more digits between non-digits.
RE_PHONE_STRICT == {"13812345678", "13812345670"}
\* RE_LONG_DIGITS_LOOSE: eight or more digits.
RE_LONG_DIGITS_LOOSE == {"13812345678", "13812345670", "12345678"}

\* SEX_TERMS and AD_TERMS, in the order of the source:
\* 月泡 外围 包夜 上门 裸 没穿 露 约 xxoo 换衣服 坐气球
SEX_TERMS == <<"yuepao", "waiwei", "baoye", "shangmen", "luo_naked", "meichuan",
               "lu_expose", "yue", "xxoo", "huanyifu", "zuoqiqiu">>
\* 私聊 带走 进群 暗号 口令 加威 加微 加v vx 微信 w:
AD_TERMS == <<"siliao", "daizou", "jinqun", "anhao", "kouling", "jia_wei1",
              "jia_wei2", "jia_v", "vx", "weixin", "w:">>
\* SAFE_PHRASES:
\* 欢迎来到直播间 点点关注 点个关注 谢谢大哥 谢谢老板 宝宝 家人们 下单 拍下 福利
\* 上链接 直播间 点赞 关注
SAFE_PHRASES == <<"huanying_zhibojian", "diandian_guanzhu", "diange_guanzhu",
                  "xiexie_dage", "xiexie_laoban", "baobao", "jiarenmen", "xiadan",
                  "paixia", "fuli", "shanglianjie", "zhibojian", "dianzan", "guanzhu">>

\* t in full_raw: no token of the vocabulary contains a term it is not.
TermIn(t, full) == \E i \in 1..Len(full) : full[i] = t

\* Mutation of Classify: a contact hint alone is structured evidence.
ClassifyHintStrong(has_gamble, has_sex, has_phone, has_qq, has_wechat, has_long_digits) ==
    IF has_gamble THEN [category |-> "Gambling", strength |-> 3, score |-> 90]
    ELSE IF has_sex THEN [category |-> "Sex", strength |-> 2, score |-> 80]
    ELSE IF has_phone \/ has_qq \/ has_wechat \/ has_long_digits
         THEN [category |-> "Ad", strength |-> 3, score |-> 92]
    ELSE [category |-> "Normal", strength |-> 0, score |-> 0]

\* Mutation of Classify: a contact hint or a long digit run alone is scored 70
\* with strength 0.
ClassifyHintUngraded(has_gamble, has_sex, has_phone, has_qq, has_wechat, has_long_digits) ==
    IF has_gamble THEN [category |-> "Gambling", strength |-> 3, score |-> 90]
    ELSE IF has_sex THEN [category |-> "Sex", strength |-> 2, score |-> 80]
    ELSE IF has_phone \/ has_qq \/ (has_wechat /\ has_long_digits)
         THEN [category |-> "Ad", strength |-> 3, score |-> 92]
    ELSE IF has_wechat \/ has_long_digits
         THEN [category |-> "Ad", strength |-> 0, score |-> 70]
    ELSE [category |-> "Normal", strength |-> 0, score |-> 0]

\* Mutation of Classify: the match with the highest score wins.
ClassifyHighestScore(has_gamble, has_sex, has_phone, has_qq, has_wechat, has_long_digits) ==
    IF has_phone \/ has_qq \/ (has_wechat /\ has_long_digits)
    THEN [category |-> "Ad", strength |-> 3, score |-> 92]
    ELSE IF has_gamble THEN [category |-> "Gambling", strength |-> 3, score |-> 90]
    ELSE IF has_sex THEN [category |-> "Sex", strength |-> 2, score |-> 80]
    ELSE IF has_wechat \/ has_long_digits
         THEN [category |-> "Ad", strength |-> 2, score |-> 70]
    ELSE [category |-> "Normal", strength |-> 0, score |-> 0]

\* The classification of lines 121-137.
Classify(has_gamble, has_sex, has_phone, has_qq, has_wechat, has_long_digits) ==
    IF has_gamble THEN [category |-> "Gambling", strength |-> 3, score |-> 90]
    ELSE IF has_sex THEN [category |-> "Sex", strength |-> 2, score |-> 80]
    ELSE IF has_phone \/ has_qq \/ (has_wechat /\ has_long_digits)
         THEN [category |-> "Ad", strength |-> 3, score |-> 92]
    ELSE IF has_wechat \/ has_long_digits
         THEN [category |-> "Ad", strength |-> 2, score |-> 70]
    ELSE [category |-> "Normal", strength |-> 0, score |-> 0]

_extract_rule(texts) ==
    LET raw_lines == SelectSeq(texts, LAMBDA it : it # <<>>)
        full_raw  == Flatten(raw_lines)
        full_norm == [i \in 1..Len(full_raw) |-> _normalize_text(full_raw[i])]
        mgr == FirstIn(full_raw, RE_MONEY_GAMBLE)
        mg  == IF mgr # <<>> THEN mgr ELSE FirstIn(full_norm, RE_MONEY_GAMBLE)
        mw  == FirstIn(full_norm, RE_WECHAT_HINT)
        mqr == FirstIn(full_raw, RE_QQ)
        mq  == IF mqr # <<>> THEN mqr ELSE FirstIn(full_norm, RE_QQ)
        mp  == FirstIn(full_norm, RE_PHONE_STRICT)
        ml  == FirstIn(full_norm, RE_LONG_DIGITS_LOOSE)
        terms == SelectSeq(SEX_TERMS \o AD_TERMS, LAMBDA t : TermIn(t, full_raw))
        evidence == mg \o mw \o mq \o mp \o ml \o terms
        dedup == Dedup(evidence, {})
        has_sex == \E i \in 1..Len(SEX_TERMS) : TermIn(SEX_TERMS[i], full_raw)
        c == Classify(mg # <<>>, has_sex, mp # <<>>, mq # <<>>, mw # <<>>, ml # <<>>)
    IN  [category |-> c.category,
         risk_score |-> c.score,
         evidence_strength |-> c.strength,
         evidence_spans |-> Take(dedup, MAX_EVIDENCE_SPANS),
         full_text_raw |-> full_raw,
         full_text_norm |-> full_norm]

_is_phrase_whitelist(full_text_raw) ==
    /\ full_text_raw # <<>>
    /\ \E i \in 1..Len(SAFE_PHRASES) : TermIn(SAFE_PHRASES[i], full_text_raw)

(***************************************************************************)
(* L2: the reviewer gateway, ContentReviewer._vl_cached_call and its       *)
(* parts.  A cache is a function from its present keys to <<ts, res>>.     *)
(***************************************************************************)
EmptyCache == [k \in {} |-> <<0, None>>]

\* Mutation of CacheSet: nothing is stored.
CacheSetDropped(cache, key, t, res) == cache

\* _set_cached and _vl_cache_set at time t.
CacheSet(cache, key, t, res) ==
    [k \in DOMAIN cache \cup {key} |-> IF k = key THEN <<t, res>> ELSE cache[k]]

CachePop(cache, key) == [k \in DOMAIN cache \ {key} |-> cache[k]]

\* The record returned when VL is disabled or rate limited (lines 200-208).
VlFallback ==
    [category |-> "Normal", risk_score |-> 0, evidence_strength |-> 0,
     evidence_spans |-> <<>>, visual_evidence |-> "", is_whitelist |-> TRUE,
     reason |-> <<"vl_off">>]

\* Mutation of _vl_rate_limit_ok: one call more than the ceiling is let through.
_vl_rate_limit_off_by_one(times, t) ==
    LET kept == SelectSeq(times, LAMBDA x : t - x < VL_WINDOW_SEC)
    IN  [ok |-> Len(kept) <= vl_max_calls_per_min, times |-> kept]

\* _vl_rate_limit_ok at time t: the purged window and whether a call is allowed.
_vl_rate_limit_ok(times, t) ==
    LET kept == SelectSeq(times, LAMBDA x : t - x < VL_WINDOW_SEC)
    IN  [ok |-> Len(kept) < vl_max_calls_per_min, times |-> kept]

\* Mutation of _vl_cache_get: an entry is returned whatever its age.
_vl_cache_get_any_age(cache, cache_key, t) ==
    IF cache_key \notin DOMAIN cache THEN [res |-> None, cache |-> cache]
    ELSE [res |-> Some(cache[cache_key][2]), cache |-> cache]

\* _vl_cache_get at time t: the record returned (or None) and the cache left.
_vl_cache_get(cache, cache_key, t) ==
    IF cache_key \notin DOMAIN cache THEN [res |-> None, cache |-> cache]
    ELSE LET ts == cache[cache_key][1]
             res == cache[cache_key][2]
         IN  IF t - ts > vl_cache_ttl_sec
             THEN [res |-> None, cache |-> CachePop(cache, cache_key)]
             ELSE IF t - ts < vl_cooldown_sec
                  THEN [res |-> Some(res), cache |-> cache]
                  ELSE [res |-> None, cache |-> cache]

\* Mutation of VlBeforeCall: a cache hit stores the record again, with a new
\* timestamp.
VlBeforeCallRestamped(enabled, cache, times, cache_key, t) ==
    LET got == _vl_cache_get(cache, cache_key, t)
    IN  IF got.res # None
        THEN [kind |-> "hit", out |-> got.res[1],
              cache |-> CacheSet(got.cache, cache_key, t, got.res[1]), times |-> times,
              limited |-> FALSE]
        ELSE IF ~enabled
             THEN [kind |-> "fallback", out |-> VlFallback,
                   cache |-> CacheSet(got.cache, cache_key, t, VlFallback),
                   times |-> times, limited |-> FALSE]
             ELSE LET rl == _vl_rate_limit_ok(times, t)
                  IN  IF ~rl.ok
                      THEN [kind |-> "fallback", out |-> VlFallback,
                            cache |-> CacheSet(got.cache, cache_key, t, VlFallback),
                            times |-> rl.times, limited |-> TRUE]
                      ELSE [kind |-> "call", out |-> VlFallback, cache |-> got.cache,
                            times |-> rl.times, limited |-> FALSE]

\* _vl_cached_call up to the remote call (lines 194-210), at time t:
\* kind "hit" (the cached record), "fallback" (the neutral record, written
\* to the cache) or "call" (the backend is to be called).
VlBeforeCall(enabled, cache, times, cache_key, t) ==
    LET got == _vl_cache_get(cache, cache_key, t)
    IN  IF got.res # None
        THEN [kind |-> "hit", out |-> got.res[1], cache |-> got.cache, times |-> times,
              limited |-> FALSE]
        ELSE IF ~enabled
             THEN [kind |-> "fallback", out |-> VlFallback,
                   cache |-> CacheSet(got.cache, cache_key, t, VlFallback),
                   times |-> times, limited |-> FALSE]
             ELSE LET rl == _vl_rate_limit_ok(times, t)
                  IN  IF ~rl.ok
                      THEN [kind |-> "fallback", out |-> VlFallback,
                            cache |-> CacheSet(got.cache, cache_key, t, VlFallback),
                            times |-> rl.times, limited |-> TRUE]
                      ELSE [kind |-> "call", out |-> VlFallback, cache |-> got.cache,
                            times |-> rl.times, limited |-> FALSE]

\* What the backend can answer to one chat.completions.create call:
\*   "error"      the call raises (network error, timeout, API error);
\*   "not_json"   the content is not JSON: res = {};
\*   "bad_number" a JSON object whose risk_score is not a number: int() raises;
\*   "json"       a JSON object, body holding the fields it has.
JsonBodies ==
    { [category |-> "Sex", risk_score |-> 85, evidence_strength |-> 3,
       visual_evidence |-> "ve", is_whitelist |-> FALSE, reason |-> "r"],
      [category |-> "Sex", risk_score |-> 101, evidence_strength |-> 1,
       visual_evidence |-> "ve", is_whitelist |-> TRUE, reason |-> "r"],
      [risk_score |-> 92, evidence_strength |-> 2, is_whitelist |-> TRUE],
      [category |-> "Sex", risk_score |-> 101, evidence_strength |-> 4,
       visual_evidence |-> "ve", is_whitelist |-> FALSE, reason |-> "r"] }

Responses ==
    {[kind |-> k] : k \in {"error", "not_json", "bad_number"}}
    \cup {[kind |-> "json", body |-> b] : b \in JsonBodies}

\* dict.get(field, default) or default.
Get(d, field, default) == IF field \in DOMAIN d THEN d[field] ELSE default

\* The response can be turned into a record (nothing raises).
Parses(resp) == resp.kind \in {"not_json", "json"}

\* Lines 223-237: the record built from a response that parses; t0 and t1 are
\* the times before and after the call.  The [:220] and [:180] cuts leave the
\* short strings of the model as they are.
VlParse(resp, t0, t1) ==
    LET res == IF resp.kind = "json" THEN resp.body ELSE EmptyDict
    IN  [category |-> Get(res, "category", "Normal"),
         risk_score |-> Get(res, "risk_score", 0),
         evidence_strength |-> Get(res, "evidence_strength", 0),
         evidence_spans |-> <<>>,
         visual_evidence |-> Get(res, "visual_evidence", ""),
         is_whitelist |-> Get(res, "is_whitelist", FALSE),
         reason |-> <<Get(res, "reason", ""), "vl_ms=" \o ToString((t1 - t0) * 1000)>>]

(***************************************************************************)
(* L2: ContentReviewer.review_from_l1 and review_visual_sexual up to the   *)
(* gateway.                                                                *)
(***************************************************************************)
\* _encode_image_to_data_url(path) is not None.
Encodable(f) == Readable(f)

RuleRecord(rule, phrase_wl, reason) ==
    [category |-> rule.category, risk_score |-> rule.risk_score,
     evidence_strength |-> rule.evidence_strength,
     evidence_spans |-> rule.evidence_spans, visual_evidence |-> "",
     is_whitelist |-> phrase_wl, reason |-> reason]

\* The record of the except branch of review_from_l1 (lines 357-367).
TextErrorRecord ==
    [category |-> "Normal", risk_score |-> 0, evidence_strength |-> 0,
     evidence_spans |-> <<>>, visual_evidence |-> "", is_whitelist |-> TRUE,
     reason |-> <<"error">>]

\* Mutation of review_from_l1_plan: the gateway is asked whenever VL is on and
\* the score is at the floor, whatever evidence the extractor found.
review_from_l1_ungated(enabled, l1_payload) ==
    LET rule == _extract_rule(l1_payload.texts)
        phrase_wl == _is_phrase_whitelist(rule.full_text_raw)
        frame_path == l1_payload.frame_path
        enable_vl == enabled /\ rule.risk_score >= VL_ESCALATION_FLOOR
        md5 == _frame_md5(frame_path)
        cache_key == md5 \o ":vl_text:" \o rule.category
    IN  IF rule.risk_score >= STRONG_RULE_SCORE
        THEN [kind |-> "record", cache_key |-> "", phrase_wl |-> phrase_wl,
              out |-> RuleRecord(rule, phrase_wl,
                                 <<"strong">> \o Take(rule.evidence_spans, 3))]
        ELSE IF enable_vl /\ md5 # NoMd5
        THEN IF ~Encodable(frame_path)
             THEN [kind |-> "record", cache_key |-> "", phrase_wl |-> phrase_wl,
                   out |-> RuleRecord(rule, phrase_wl, <<"img_fail">>)]
             ELSE [kind |-> "vl", cache_key |-> cache_key, phrase_wl |-> phrase_wl,
                   out |-> RuleRecord(rule, phrase_wl, <<"rule">>)]
        ELSE [kind |-> "record", cache_key |-> "", phrase_wl |-> phrase_wl,
              out |-> RuleRecord(rule, phrase_wl,
                                 IF rule.risk_score > 0 THEN <<"rule">> ELSE <<"weak">>)]

\* review_from_l1 up to the gateway (lines 283-318, 347-355): kind "record"
\* (out is returned as it is) or "vl" (the gateway is asked under cache_key).
review_from_l1_plan(enabled, l1_payload) ==
    LET rule == _extract_rule(l1_payload.texts)
        phrase_wl == _is_phrase_whitelist(rule.full_text_raw)
        frame_path == l1_payload.frame_path
        enable_vl == enabled /\ rule.risk_score >= VL_ESCALATION_FLOOR
        ocr_too_weak == Len(rule.evidence_spans) = 0 /\ rule.evidence_strength = 0
        md5 == _frame_md5(frame_path)
        cache_key == md5 \o ":vl_text:" \o rule.category
    IN  IF rule.risk_score >= STRONG_RULE_SCORE
        THEN [kind |-> "record", cache_key |-> "", phrase_wl |-> phrase_wl,
              out |-> RuleRecord(rule, phrase_wl,
                                 <<"strong">> \o Take(rule.evidence_spans, 3))]
        ELSE IF enable_vl /\ ocr_too_weak /\ md5 # NoMd5
        THEN IF ~Encodable(frame_path)
             THEN [kind |-> "record", cache_key |-> "", phrase_wl |-> phrase_wl,
                   out |-> RuleRecord(rule, phrase_wl, <<"img_fail">>)]
             ELSE [kind |-> "vl", cache_key |-> cache_key, phrase_wl |-> phrase_wl,
                   out |-> RuleRecord(rule, phrase_wl, <<"rule">>)]
        ELSE [kind |-> "record", cache_key |-> "", phrase_wl |-> phrase_wl,
              out |-> RuleRecord(rule, phrase_wl,
                                 IF rule.risk_score > 0 THEN <<"rule">> ELSE <<"weak">>)]

\* Line 344: vl["is_whitelist"] = bool(vl.get("is_whitelist")) or bool(phrase_wl)
WithPhraseWhitelist(vl, phrase_wl) ==
    [vl EXCEPT !.is_whitelist = vl.is_whitelist \/ phrase_wl]

\* The records review_visual_sexual returns without asking the gateway.
NoImageMd5Record == [VlFallback EXCEPT !.reason = <<"no_image_md5">>]
ImageReadFailRecord == [VlFallback EXCEPT !.reason = <<"image_read_fail">>]

(***************************************************************************)
(* L3: the engine cache and the fusion of detect_and_judge.                *)
(***************************************************************************)
\* RiskEngine._get_cached at time t.
_get_cached(cache, key, t) ==
    IF key \notin DOMAIN cache THEN None
    ELSE IF t - cache[key][1] < l2_cooldown THEN Some(cache[key][2]) ELSE None

\* Mutation of Threshold: a rule whose action is pass never blocks.
ThresholdByAction(policy, category, l2_threshold_override) ==
    IF l2_threshold_override # None
    THEN l2_threshold_override[1]
    ELSE IF category \in DOMAIN policy
         THEN IF Get(policy[category], "action", "block") = "pass"
              THEN FALLBACK_THRESHOLD
              ELSE Get(policy[category], "risk_threshold", DEFAULT_THRESHOLD)
         ELSE DEFAULT_THRESHOLD

\* Mutation of Threshold: the override is not looked at.
ThresholdOverrideIgnored(policy, category, l2_threshold_override) ==
    IF category \in DOMAIN policy
    THEN Get(policy[category], "risk_threshold", DEFAULT_THRESHOLD)
    ELSE DEFAULT_THRESHOLD

\* Mutation of Threshold: a category without a rule gets the threshold of the
\* Normal rule.
ThresholdOfNormal(policy, category, l2_threshold_override) ==
    IF l2_threshold_override # None
    THEN l2_threshold_override[1]
    ELSE IF category \in DOMAIN policy
         THEN Get(policy[category], "risk_threshold", DEFAULT_THRESHOLD)
         ELSE IF "Normal" \in DOMAIN policy
              THEN Get(policy["Normal"], "risk_threshold", DEFAULT_THRESHOLD)
              ELSE DEFAULT_THRESHOLD

\* Lines 208-215: the threshold the score is compared with.  The override is
\* an int or None, as the signature and the callers have it.
Threshold(policy, category, l2_threshold_override) ==
    IF l2_threshold_override # None
    THEN l2_threshold_override[1]
    ELSE IF category \in DOMAIN policy
         THEN Get(policy[category], "risk_threshold", DEFAULT_THRESHOLD)
         ELSE DEFAULT_THRESHOLD

\* Mutation of Candidates: a review that did not run counts as an empty record.
CandidatesPadded(l2_text_res, l2_sex_res) ==
    LET empty == [category |-> "Normal", risk_score |-> 0, evidence_strength |-> 0,
                  evidence_spans |-> <<>>, visual_evidence |-> "",
                  is_whitelist |-> FALSE, reason |-> <<>>]
        text == IF l2_text_res # None THEN l2_text_res[1] ELSE empty
        sex  == IF l2_sex_res # None THEN l2_sex_res[1] ELSE empty
    IN  IF sex.risk_score > text.risk_score
        THEN <<[src |-> "sex", rec |-> sex], [src |-> "text", rec |-> text]>>
        ELSE <<[src |-> "text", rec |-> text], [src |-> "sex", rec |-> sex]>>

\* Mutation of Candidates: a record with strength >= 2 and evidence comes
\* before one without, whatever the scores.
CandidatesGroundedFirst(l2_text_res, l2_sex_res) ==
    LET cs == (IF l2_text_res # None THEN <<[src |-> "text", rec |-> l2_text_res[1]]>>
               ELSE <<>>)
              \o (IF l2_sex_res # None THEN <<[src |-> "sex", rec |-> l2_sex_res[1]]>>
                  ELSE <<>>)
        strong(rec) == /\ rec.evidence_strength >= 2
                       /\ Len(rec.evidence_spans) > 0 \/ Strip(rec.visual_evidence) # ""
    IN  IF Len(cs) = 2
           /\ \/ strong(cs[2].rec) /\ ~strong(cs[1].rec)
              \/ /\ strong(cs[2].rec) = strong(cs[1].rec)
                 /\ cs[2].rec.risk_score > cs[1].rec.risk_score
        THEN <<cs[2], cs[1]>>
        ELSE cs

\* Mutation of Candidates: on equal scores the visual record comes first.
CandidatesLastOnTie(l2_text_res, l2_sex_res) ==
    LET cs == (IF l2_text_res # None THEN <<[src |-> "text", rec |-> l2_text_res[1]]>>
               ELSE <<>>)
              \o (IF l2_sex_res # None THEN <<[src |-> "sex", rec |-> l2_sex_res[1]]>>
                  ELSE <<>>)
    IN  IF Len(cs) = 2 /\ cs[2].rec.risk_score >= cs[1].rec.risk_score
        THEN <<cs[2], cs[1]>>
        ELSE cs

\* Lines 176-191: the candidates, sorted by risk_score, highest first; the
\* sort is stable, so the text record stays first on equal scores.
Candidates(l2_text_res, l2_sex_res) ==
    LET cs == (IF l2_text_res # None THEN <<[src |-> "text", rec |-> l2_text_res[1]]>>
               ELSE <<>>)
              \o (IF l2_sex_res # None THEN <<[src |-> "sex", rec |-> l2_sex_res[1]]>>
                  ELSE <<>>)
    IN  IF Len(cs) = 2 /\ cs[2].rec.risk_score > cs[1].rec.risk_score
        THEN <<cs[2], cs[1]>>
        ELSE cs

\* Mutation of Suppressed: no record is suppressed.
SuppressedNever(chosen) == FALSE

\* Mutation of Suppressed: only the strength is looked at.
SuppressedByStrengthOnly(chosen) == chosen.evidence_strength < 2

\* Lines 200-202: the chosen record is suppressed.
Suppressed(chosen) ==
    LET has_any_evidence == Len(chosen.evidence_spans) > 0
                            \/ Strip(chosen.visual_evidence) # ""
    IN  chosen.evidence_strength < 2 \/ ~has_any_evidence

\* Mutation of EffectiveWhitelist: only strength 3 clears the flag.
WhitelistClearedAtThree(chosen) ==
    IF chosen.is_whitelist /\ chosen.evidence_strength >= 3 THEN FALSE
    ELSE chosen.is_whitelist

\* Mutation of EffectiveWhitelist: the flag is kept as the record has it.
WhitelistKept(chosen) == chosen.is_whitelist

\* Lines 217-218: the whitelist flag the comparison uses.
EffectiveWhitelist(chosen) ==
    IF chosen.is_whitelist /\ chosen.evidence_strength >= 2 THEN FALSE
    ELSE chosen.is_whitelist

\* Mutation of Blocks: the comparison is turned around.
BlocksAtOrBelow(score, threshold, is_whitelist) == score <= threshold /\ ~is_whitelist

\* Line 220: the chosen record blocks.
Blocks(score, threshold, is_whitelist) == score >= threshold /\ ~is_whitelist

\* Lines 183-232: action, score, reason and category of the decision.
Fusion(l2_text_res, l2_sex_res, l2_threshold_override, policy) ==
    LET candidates == Candidates(l2_text_res, l2_sex_res)
    IN  IF candidates = <<>>
        THEN [action |-> "pass", risk_score |-> 0, reason |-> <<"clean">>,
              chosen_category |-> "Normal", chosen |-> None]
        ELSE LET chosen_src == candidates[1].src
                 chosen == candidates[1].rec
                 score == chosen.risk_score
                 category == chosen.category
                 evidence_spans == chosen.evidence_spans
                 visual_evidence == Strip(chosen.visual_evidence)
             IN  IF Suppressed(chosen)
                 THEN [action |-> "pass",
                       risk_score |-> Min(score, MAX_SCORE_WITHOUT_EVIDENCE),
                       reason |-> <<"insufficient">>,
                       chosen_category |-> category, chosen |-> Some(chosen)]
                 ELSE LET threshold == Threshold(policy, category, l2_threshold_override)
                          ev == IF evidence_spans # <<>> THEN Take(evidence_spans, 3)
                                ELSE IF visual_evidence # "" THEN <<visual_evidence>>
                                ELSE <<>>
                      IN  IF Blocks(score, threshold, EffectiveWhitelist(chosen))
                          THEN [action |-> "block", risk_score |-> score,
                                reason |-> <<"hit", chosen_src, category>> \o ev,
                                chosen_category |-> category, chosen |-> Some(chosen)]
                          ELSE [action |-> "pass", risk_score |-> score,
                                reason |-> <<"below">>,
                                chosen_category |-> category, chosen |-> Some(chosen)]

(***************************************************************************)
(* The policy mappings _load_policy can return: the mapping of a rules     *)
(* file, or the single permissive rule when the file cannot be loaded.     *)
(***************************************************************************)
PolicyLoadFailed ==
    [c \in {"Normal"} |-> [risk_threshold |-> FALLBACK_THRESHOLD, action |-> "pass"]]

\* A rules file: Ad and Sex with thresholds, Gambling without one.
PolicySample ==
    [c \in {"Normal", "Ad", "Sex", "Gambling"} |->
        CASE c = "Normal"   -> [risk_threshold |-> 100, action |-> "pass"]
          [] c = "Ad"       -> [risk_threshold |-> 60, action |-> "block"]
          [] c = "Sex"      -> [risk_threshold |-> 85, action |-> "warn"]
          [] c = "Gambling" -> [action |-> "block"]]

Policies == {PolicyLoadFailed, PolicySample}

\* The l2_threshold_override arguments the model passes.
Overrides == {None, Some(80)}

\* LABEL_MAP.get(l, l), with stand-ins for the Chinese names.
LABEL_MAP(l) ==
    CASE l = "knife" -> "cn_knife" [] l = "qr_code" -> "cn_qr_code"
      [] l = "risky_content" -> "cn_risky_content" [] l = "wechat_id" -> "cn_wechat_id"
      [] l = "wechat_qr" -> "cn_wechat_qr" [] l = "scissors" -> "cn_scissors"
      [] l = "gun" -> "cn_gun" [] l = "fire" -> "cn_fire"
      [] OTHER -> l

(***************************************************************************)
(* State.                                                                  *)
(***************************************************************************)
NoLookup == <<>>
Lookup(cache, key, t, hit) ==
    <<[key |-> key, present |-> key \in DOMAIN cache,
       age |-> IF key \in DOMAIN cache THEN t - cache[key][1] ELSE 0,
       entry |-> IF key \in DOMAIN cache THEN Some(cache[key][2]) ELSE None,
       hit |-> hit]>>

\* What a step did: the engine-cache and gateway-cache lookups it made, whether
\* the limiter refused, what the gateway answered with ("none", "hit",
\* "fallback", "call", "returned"), the record handed back, the number of
\* calls of the last VL_WINDOW_SEC seconds when the gateway was asked, and
\* the length of the call list before and after.
ObsIdle ==
    [l2 |-> NoLookup, vl |-> NoLookup, limited |-> FALSE, gateway |-> "none",
     out |-> None, window_fresh |-> 0, window_before |-> 0, window_after |-> 0]

ReqIdle ==
    [frame |-> "", direct |-> FALSE, override |-> None, hard_block |-> TRUE, t0 |-> 0,
     labels |-> <<>>, texts |-> <<>>, hit_summary |-> EmptyDict, hard_hits |-> <<>>,
     l2_text_res |-> None, l2_sex_res |-> None, invoked |-> {}, remote_calls |-> 0,
     call |-> [key |-> "", t0 |-> 0, phrase_wl |-> FALSE]]

Init ==
    /\ now = 0
    /\ vl_enabled \in BOOLEAN
    /\ policy_rules \in Policies
    /\ l2_cache = EmptyCache
    /\ vl_cache = EmptyCache
    /\ vl_call_times = <<>>
    /\ vl_issued = <<>>
    /\ pc = [w \in Workers |-> "idle"]
    /\ req = [w \in Workers |-> ReqIdle]
    /\ final = [w \in Workers |-> None]
    /\ obs = [w \in Workers |-> ObsIdle]
    /\ prev = [f \in Frames |-> {}]
    /\ begun = 0

(***************************************************************************)
(* detect_and_judge, one worker w running one call at a time, in steps:    *)
(*   Begin       lines 110-142  L1, labels, the hard-block check           *)
(*   L2Text      lines 144-158  the text review, up to a backend call      *)
(*   L2Sex       lines 160-174  the visual review, up to a backend call    *)
(*   CallReturn  llm_client.py lines 212-240, 344-345, 357-367             *)
(*   Fuse        lines 176-252  fusion and the decision                    *)
(*   Return      the call is over                                          *)
(* and review_visual_sexual called on the reviewer itself, not through the *)
(* engine (a request with direct = TRUE):                                  *)
(*   DirectVisual  llm_client.py lines 242-280                             *)
(***************************************************************************)
\* Mutation of HardBlocked: the flag is read inverted.
HardBlockedInverted(l1_hard_block, hard_hits) == ~l1_hard_block /\ Len(hard_hits) > 0

\* Line 125: the veto applies.
HardBlocked(l1_hard_block, hard_hits) == l1_hard_block /\ Len(hard_hits) > 0

\* Lines 126-140: the decision of the veto.
HardDecision(r, t) ==
    [risk_score |-> HARD_BLOCK_SCORE,
     action |-> "block",
     reason |-> <<"hard">> \o [i \in 1..Min(Len(r.hard_hits), 4) |-> LABEL_MAP(r.hard_hits[i])],
     evidence |-> [l1 |-> [hard_hits |-> Take(r.hard_hits, 10),
                           labels |-> Take(r.labels, 30),
                           hit_summary |-> r.hit_summary],
                   l2 |-> EmptyDict,
                   time_ms |-> (t - r.t0) * 1000]]

\* Lines 234-251: the decision after fusion.
FusedDecision(r, policy, t) ==
    LET d == Fusion(r.l2_text_res, r.l2_sex_res, r.override, policy)
    IN  [risk_score |-> d.risk_score,
         action |-> d.action,
         reason |-> d.reason,
         evidence |-> [l1 |-> [labels |-> Take(r.labels, 30),
                               hard_hits |-> Take(r.hard_hits, 10),
                               hit_summary |-> r.hit_summary,
                               l1_hard_block |-> r.hard_block],
                       l2_text |-> r.l2_text_res,
                       l2_sex |-> r.l2_sex_res,
                       chosen_category |-> d.chosen_category,
                       time_ms |-> (t - r.t0) * 1000]]

Begin(w, f, o, h) ==
    /\ pc[w] = "idle"
    /\ begun' = begun + 1
    /\ LET l1_res == process_frame(f)
           labels == _extract_objects_labels(l1_res.objects)
           hard_hits == SelectSeq(labels,
                                  LAMBDA l : _normalize_label(l) \in HARD_BLOCK_LABELS)
           r == [ReqIdle EXCEPT !.frame = f, !.override = o, !.hard_block = h,
                                !.t0 = now, !.labels = labels, !.texts = l1_res.texts,
                                !.hit_summary = l1_res.hit_summary,
                                !.hard_hits = hard_hits]
       IN  /\ req' = [req EXCEPT ![w] = r]
           /\ IF HardBlocked(h, hard_hits)
              THEN /\ final' = [final EXCEPT ![w] = Some(HardDecision(r, now))]
                   /\ pc' = [pc EXCEPT ![w] = "done"]
              ELSE /\ final' = [final EXCEPT ![w] = None]
                   /\ pc' = [pc EXCEPT ![w] = "l2_text"]
    /\ obs' = [obs EXCEPT ![w] = ObsIdle]
    /\ UNCHANGED <<now, vl_enabled, policy_rules, l2_cache, vl_cache, vl_call_times,
                   vl_issued, prev>>

\* Where a call goes after its text or visual review.
NextPc(r, which) ==
    IF r.direct THEN "done" ELSE IF which = "text" THEN "l2_sex" ELSE "fuse"

SetRes(r, which, res) ==
    IF which = "text" THEN [r EXCEPT !.l2_text_res = Some(res)]
    ELSE [r EXCEPT !.l2_sex_res = Some(res)]

\* Lines 146 and 162 when the path is not taken: the result stays None.
Skip(w, which) ==
    /\ pc' = [pc EXCEPT ![w] = NextPc(req[w], which)]
    /\ obs' = [obs EXCEPT ![w] = ObsIdle]
    /\ UNCHANGED <<now, vl_enabled, policy_rules, l2_cache, vl_cache, vl_call_times,
                   vl_issued, req, final, prev, begun>>

\* Lines 155-156, 171-172: the engine cache answered.
FromEngineCache(w, which, res, look) ==
    /\ req' = [req EXCEPT ![w] = SetRes(@, which, res)]
    /\ pc' = [pc EXCEPT ![w] = NextPc(req[w], which)]
    /\ obs' = [obs EXCEPT ![w] = [ObsIdle EXCEPT !.l2 = look, !.out = Some(res)]]
    /\ UNCHANGED <<now, vl_enabled, policy_rules, l2_cache, vl_cache, vl_call_times,
                   vl_issued, final, prev, begun>>

\* review_from_l1 or review_visual_sexual returned res.  The engine stores it
\* under its own key when the frame has a fingerprint (lines 153-154, 158,
\* 169-170, 174); a direct caller of the reviewer has no engine cache.
Deliver(w, which, op, res, o, vlc, times) ==
    LET md5 == _frame_md5(req[w].frame)
    IN  /\ l2_cache' = IF md5 # NoMd5 /\ ~req[w].direct
                       THEN CacheSet(l2_cache, md5 \o ":l2_" \o which, now, res)
                       ELSE l2_cache
        /\ req' = [req EXCEPT ![w] = [SetRes(@, which, res) EXCEPT !.invoked = @ \cup op]]
        /\ pc' = [pc EXCEPT ![w] = NextPc(req[w], which)]
        /\ vl_cache' = vlc
        /\ vl_call_times' = times
        /\ obs' = [obs EXCEPT ![w] = o]
        /\ UNCHANGED <<now, vl_enabled, policy_rules, vl_issued, final, prev, begun>>

\* What the caller of the gateway does to the record it gets: review_from_l1
\* writes the phrase whitelist into it (line 344), in place.
Mutate(which, out, phrase_wl) ==
    IF which = "text" THEN WithPhraseWhitelist(out, phrase_wl) ELSE out

\* Mutation of AskGateway: a request that finds a backend call for its key in
\* flight does not call the backend; it is answered as a rate-limited one.
AskGatewaySingleFlight(w, which, op, cache_key, phrase_wl, look) ==
    LET in_flight == \E v \in Workers \ {w} :
                         /\ pc[v] \in {"text_call", "sex_call"}
                         /\ req[v].call.key = cache_key
        g0 == VlBeforeCall(vl_enabled, vl_cache, vl_call_times, cache_key, now)
        g == IF g0.kind = "call" /\ in_flight
             THEN [kind |-> "fallback", out |-> VlFallback,
                   cache |-> CacheSet(g0.cache, cache_key, now, VlFallback),
                   times |-> g0.times, limited |-> TRUE]
             ELSE g0
        out == Mutate(which, g.out, phrase_wl)
        o == [l2 |-> look,
              vl |-> Lookup(vl_cache, cache_key, now, g.kind = "hit"),
              limited |-> g.limited, gateway |-> g.kind,
              out |-> IF g.kind = "call" THEN None ELSE Some(g.out),
              window_fresh |-> Cardinality({i \in 1..Len(vl_call_times) :
                                              now - vl_call_times[i] < VL_WINDOW_SEC}),
              window_before |-> Len(vl_call_times), window_after |-> Len(g.times)]
    IN  IF g.kind = "call"
        THEN /\ pc' = [pc EXCEPT ![w] = which \o "_call"]
             /\ req' = [req EXCEPT ![w].call = [key |-> cache_key, t0 |-> now,
                                                phrase_wl |-> phrase_wl],
                                   ![w].invoked = @ \cup op,
                                   ![w].remote_calls = @ + 1]
             /\ vl_cache' = g.cache
             /\ vl_call_times' = g.times
             /\ vl_issued' = Append(vl_issued, now)
             /\ obs' = [obs EXCEPT ![w] = o]
             /\ UNCHANGED <<now, vl_enabled, policy_rules, l2_cache, final, prev, begun>>
        ELSE Deliver(w, which, op, out, o,
                     [g.cache EXCEPT ![cache_key] = <<@[1], out>>], g.times)

\* _vl_cached_call from review_from_l1 or review_visual_sexual.
AskGateway(w, which, op, cache_key, phrase_wl, look) ==
    LET g == VlBeforeCall(vl_enabled, vl_cache, vl_call_times, cache_key, now)
        out == Mutate(which, g.out, phrase_wl)
        o == [l2 |-> look,
              vl |-> Lookup(vl_cache, cache_key, now, g.kind = "hit"),
              limited |-> g.limited, gateway |-> g.kind,
              out |-> IF g.kind = "call" THEN None ELSE Some(g.out),
              window_fresh |-> Cardinality({i \in 1..Len(vl_call_times) :
                                              now - vl_call_times[i] < VL_WINDOW_SEC}),
              window_before |-> Len(vl_call_times), window_after |-> Len(g.times)]
    IN  IF g.kind = "call"
        THEN /\ pc' = [pc EXCEPT ![w] = which \o "_call"]
             /\ req' = [req EXCEPT ![w].call = [key |-> cache_key, t0 |-> now,
                                                phrase_wl |-> phrase_wl],
                                   ![w].invoked = @ \cup op,
                                   ![w].remote_calls = @ + 1]
             /\ vl_cache' = g.cache
             /\ vl_call_times' = g.times
             /\ vl_issued' = Append(vl_issued, now)
             /\ obs' = [obs EXCEPT ![w] = o]
             /\ UNCHANGED <<now, vl_enabled, policy_rules, l2_cache, final, prev, begun>>
        ELSE Deliver(w, which, op, out, o,
                     [g.cache EXCEPT ![cache_key] = <<@[1], out>>], g.times)

L2Text(w) ==
    /\ pc[w] = "l2_text"
    /\ LET r == req[w]
           md5 == _frame_md5(r.frame)
           key == md5 \o ":l2_text"
           cached == IF md5 # NoMd5 THEN _get_cached(l2_cache, key, now) ELSE None
           look == IF md5 # NoMd5 THEN Lookup(l2_cache, key, now, cached # None)
                   ELSE NoLookup
           plan == review_from_l1_plan(vl_enabled, [frame_path |-> r.frame, texts |-> r.texts])
           o == [ObsIdle EXCEPT !.l2 = look]
       IN  IF r.texts = <<>> /\ r.labels = <<>> THEN Skip(w, "text")
           ELSE IF cached # None THEN FromEngineCache(w, "text", cached[1], look)
           ELSE IF plan.kind = "record"
                THEN Deliver(w, "text", {"review_from_l1"}, plan.out, o,
                             vl_cache, vl_call_times)
                ELSE AskGateway(w, "text", {"review_from_l1"}, plan.cache_key,
                                plan.phrase_wl, look)

\* review_visual_sexual(image_path), lines 242-280.
ReviewVisualSexual(w, look) ==
    LET image_path == req[w].frame
        md5 == _frame_md5(image_path)
        o == [ObsIdle EXCEPT !.l2 = look]
    IN  IF md5 = NoMd5
        THEN Deliver(w, "sex", {"review_visual_sexual"}, NoImageMd5Record, o,
                     vl_cache, vl_call_times)
        ELSE IF ~Encodable(image_path)
             THEN Deliver(w, "sex", {"review_visual_sexual"}, ImageReadFailRecord, o,
                          vl_cache, vl_call_times)
             ELSE AskGateway(w, "sex", {"review_visual_sexual"}, md5 \o ":vl_sex",
                             FALSE, look)

\* Mutation of L2Sex: the visual review also runs when text was recognized.
L2SexOnText(w) ==
    /\ pc[w] = "l2_sex"
    /\ LET r == req[w]
           skin_trigger == Get(r.hit_summary, "skin_trigger", FALSE)
           md5 == _frame_md5(r.frame)
           key == md5 \o ":l2_sex"
           cached == IF md5 # NoMd5 THEN _get_cached(l2_cache, key, now) ELSE None
           look == IF md5 # NoMd5 THEN Lookup(l2_cache, key, now, cached # None)
                   ELSE NoLookup
       IN  IF ~skin_trigger /\ r.texts = <<>> THEN Skip(w, "sex")
           ELSE IF cached # None THEN FromEngineCache(w, "sex", cached[1], look)
           ELSE ReviewVisualSexual(w, look)

\* Lines 160-174: the visual review, gated by skin_trigger.
L2Sex(w) ==
    /\ pc[w] = "l2_sex"
    /\ LET r == req[w]
           skin_trigger == Get(r.hit_summary, "skin_trigger", FALSE)
           md5 == _frame_md5(r.frame)
           key == md5 \o ":l2_sex"
           cached == IF md5 # NoMd5 THEN _get_cached(l2_cache, key, now) ELSE None
           look == IF md5 # NoMd5 THEN Lookup(l2_cache, key, now, cached # None)
                   ELSE NoLookup
       IN  IF ~skin_trigger THEN Skip(w, "sex")
           ELSE IF cached # None THEN FromEngineCache(w, "sex", cached[1], look)
           ELSE ReviewVisualSexual(w, look)

\* A caller other than the engine asks the reviewer for the visual review of f.
DirectVisual(w, f) ==
    /\ pc[w] = "idle"
    /\ begun' = begun + 1
    /\ pc' = [pc EXCEPT ![w] = "visual"]
    /\ req' = [req EXCEPT ![w] = [ReqIdle EXCEPT !.frame = f, !.direct = TRUE, !.t0 = now]]
    /\ obs' = [obs EXCEPT ![w] = ObsIdle]
    /\ UNCHANGED <<now, vl_enabled, policy_rules, l2_cache, vl_cache, vl_call_times,
                   vl_issued, final, prev>>

Visual(w) ==
    /\ pc[w] = "visual"
    /\ ReviewVisualSexual(w, NoLookup)

\* An exception raised inside the gateway leaves review_visual_sexual, which has
\* no handler (lines 242-280), and then detect_and_judge, which has none either;
\* review_from_l1 catches it (lines 357-367).
Propagates(which) == which = "sex"

\* The backend call of worker w ends with resp (lines 212-240).
CallReturn(w, resp) ==
    /\ pc[w] \in {"text_call", "sex_call"}
    /\ LET which == IF pc[w] = "text_call" THEN "text" ELSE "sex"
           call == req[w].call
           times == IF resp.kind = "error" THEN vl_call_times
                    ELSE Append(vl_call_times, now)
           out == Mutate(which, VlParse(resp, call.t0, now), call.phrase_wl)
           o == [ObsIdle EXCEPT !.gateway = "returned",
                                !.out = IF Parses(resp) THEN Some(out) ELSE None,
                                !.window_before = Len(vl_call_times),
                                !.window_after = Len(times)]
       IN  IF Parses(resp)
           THEN Deliver(w, which, {}, out, o, CacheSet(vl_cache, call.key, now, out), times)
           ELSE IF ~Propagates(which)
                THEN Deliver(w, which, {}, TextErrorRecord, o, vl_cache, times)
                ELSE /\ pc' = [pc EXCEPT ![w] = "raised"]
                     /\ vl_call_times' = times
                     /\ obs' = [obs EXCEPT ![w] = o]
                     /\ UNCHANGED <<now, vl_enabled, policy_rules, l2_cache, vl_cache,
                                    vl_issued, req, final, prev, begun>>

\* When the entry under key was stored, t if there is none.
StoredAt(cache, key, t) == IF key \in DOMAIN cache THEN cache[key][1] ELSE t

\* The decided calls on a frame whose engine-cache entries a call begun at t or
\* later can still find within their cooldown (history, dropped between calls).
Recent(entries, t) == {e \in entries : e.since + l2_cooldown > t}

Fuse(w) ==
    /\ pc[w] = "fuse"
    /\ LET r == req[w]
           dec == FusedDecision(r, policy_rules, now)
           md5 == _frame_md5(r.frame)
           since == Min(StoredAt(l2_cache, md5 \o ":l2_text", now),
                        StoredAt(l2_cache, md5 \o ":l2_sex", now))
       IN  /\ final' = [final EXCEPT ![w] = Some(dec)]
           /\ prev' = [f \in Frames |->
                          IF f = r.frame
                          THEN prev[f] \cup {[since |-> since, t1 |-> now,
                                              l2_text |-> dec.evidence.l2_text,
                                              l2_sex |-> dec.evidence.l2_sex]}
                          ELSE prev[f]]
    /\ pc' = [pc EXCEPT ![w] = "done"]
    /\ obs' = [obs EXCEPT ![w] = ObsIdle]
    /\ UNCHANGED <<now, vl_enabled, policy_rules, l2_cache, vl_cache, vl_call_times,
                   vl_issued, req, begun>>

\* detect_and_judge returned (or raised) to its caller.
Return(w) ==
    /\ pc[w] \in {"done", "raised"}
    /\ pc' = [pc EXCEPT ![w] = "idle"]
    /\ req' = [req EXCEPT ![w] = ReqIdle]
    /\ final' = [final EXCEPT ![w] = None]
    /\ obs' = [obs EXCEPT ![w] = ObsIdle]
    /\ UNCHANGED <<now, vl_enabled, policy_rules, l2_cache, vl_cache, vl_call_times,
                   vl_issued, prev, begun>>

\* The invocations of the backend that a window ending at t still covers
\* (history of lines 213-219, read by no code).
StillInWindow(issued, t) == SelectSeq(issued, LAMBDA ti : t - ti < VL_WINDOW_SEC)

\* Time passes between calls and while a worker waits for the backend; the
\* local steps of a call are instantaneous at the grain of the clock.
Tick(limit) ==
    /\ now < limit
    /\ \A w \in Workers : pc[w] \in {"idle", "text_call", "sex_call"}
    /\ now' = now + 1
    /\ prev' = IF \A w \in Workers : pc[w] = "idle"
               THEN [f \in Frames |-> Recent(prev[f], now + 1)]
               ELSE prev
    /\ vl_issued' = StillInWindow(vl_issued, now + 1)
    /\ UNCHANGED <<vl_enabled, policy_rules, l2_cache, vl_cache, vl_call_times,
                   pc, req, final, obs, begun>>

(***************************************************************************)
(* Spec: the reference behaviour, one detect_and_judge call at a time (on  *)
(* worker w1), over every frame and argument of the model.                 *)
(***************************************************************************)
Next ==
    \/ Tick(MaxTime)
    \/ /\ begun < MaxRequests
       /\ \E f \in Frames, o \in Overrides, h \in BOOLEAN : Begin("w1", f, o, h)
    \/ L2Text("w1")
    \/ L2Sex("w1")
    \/ \E resp \in Responses : CallReturn("w1", resp)
    \/ Fuse("w1")
    \/ Return("w1")

Spec == Init /\ [][Next]_vars

(***************************************************************************)
(* SpecCache: the caches and the limiter over a longer time, on the frames *)
(* that reach the backend, asked through the engine and directly.          *)
(***************************************************************************)
CacheFrames == {"f_skin"}

NextCache ==
    \/ Tick(MaxCacheTime)
    \/ /\ begun < MaxCacheRequests
       /\ \E f \in CacheFrames : Begin("w1", f, None, FALSE)
    \/ /\ begun < MaxCacheRequests
       /\ \E f \in CacheFrames : DirectVisual("w1", f)
    \/ Visual("w1")
    \/ L2Text("w1")
    \/ L2Sex("w1")
    \/ \E resp \in Responses : CallReturn("w1", resp)
    \/ Fuse("w1")
    \/ Return("w1")

SpecCache == Init /\ [][NextCache]_vars
(***************************************************************************)
(* SpecFuse: the reviews and the fusion as functions of the detector       *)
(* output.  The call starts after L1 with the texts, labels and skin       *)
(* trigger of some frame f_input and with the veto switched off, and runs  *)
(* to its decision; the override ranges over the thresholds.               *)
(***************************************************************************)
Spans == UNION {[1..n -> Tokens] : n \in 1..MaxSpanLen}
TextSamples == {<<>>} \cup {<<sp>> : sp \in Spans}
\* Detector outputs: any of the texts without detections, and detections
\* without text.
DetectorSamples ==
    {[texts |-> t, labels |-> <<>>] : t \in TextSamples}
    \cup {[texts |-> <<>>, labels |-> <<"knife">>]}
OverrideSamples == {None, Some(0), Some(80), Some(MaxThreshold)}

InitFuse ==
    /\ now = 0
    /\ vl_enabled \in BOOLEAN
    /\ policy_rules \in Policies
    /\ l2_cache = EmptyCache
    /\ vl_cache = EmptyCache
    /\ vl_call_times = <<>>
    /\ vl_issued = <<>>
    /\ pc = [w \in Workers |-> IF w = "w1" THEN "l2_text" ELSE "idle"]
    /\ \E l1 \in DetectorSamples, skin \in BOOLEAN, o \in OverrideSamples :
          req = [w \in Workers |->
                   IF w = "w1"
                   THEN [ReqIdle EXCEPT
                           !.frame = "f_input", !.override = o, !.hard_block = FALSE,
                           !.labels = l1.labels, !.texts = l1.texts,
                           !.hit_summary = [skin_trigger |-> skin],
                           !.hard_hits = SelectSeq(l1.labels,
                               LAMBDA l : _normalize_label(l) \in HARD_BLOCK_LABELS)]
                   ELSE ReqIdle]
    /\ final = [w \in Workers |-> None]
    /\ obs = [w \in Workers |-> ObsIdle]
    /\ prev = [f \in Frames |-> {}]
    /\ begun = 1

NextFuse ==
    \/ L2Text("w1")
    \/ L2Sex("w1")
    \/ \E resp \in Responses : CallReturn("w1", resp)
    \/ Fuse("w1")
    \/ Return("w1")

SpecFuse == InitFuse /\ [][NextFuse]_vars

(***************************************************************************)
(* SpecRule: the same steps from a call whose recognized text is one span  *)
(* holding any selection of one token per pattern of the rule extractor,   *)
(* so that every combination of its pattern flags that a text can raise    *)
(* occurs (a phone number is also a long digit run).                       *)
(***************************************************************************)
\* One token per pattern: RE_MONEY_GAMBLE, SEX_TERMS, RE_PHONE_STRICT, RE_QQ,
\* RE_WECHAT_HINT, RE_LONG_DIGITS_LOOSE.
RuleTokens == <<"xiazhu", "yue", "13812345678", "qq12345", "jia_v", "12345678">>

\* The span of a neutral word and the tokens selected by S, in the order above.
RuleSpan(S) ==
    LET F[i \in 0..Len(RuleTokens)] ==
            IF i = 0 THEN <<"kan">>
            ELSE IF i \in S THEN Append(F[i - 1], RuleTokens[i]) ELSE F[i - 1]
    IN  F[Len(RuleTokens)]

RuleTexts == {<<RuleSpan(S)>> : S \in SUBSET (1..Len(RuleTokens))}

InitRule ==
    /\ now = 0
    /\ vl_enabled \in BOOLEAN
    /\ policy_rules \in Policies
    /\ l2_cache = EmptyCache
    /\ vl_cache = EmptyCache
    /\ vl_call_times = <<>>
    /\ vl_issued = <<>>
    /\ pc = [w \in Workers |-> IF w = "w1" THEN "l2_text" ELSE "idle"]
    /\ \E texts \in RuleTexts, skin \in BOOLEAN, o \in Overrides :
          req = [w \in Workers |->
                   IF w = "w1"
                   THEN [ReqIdle EXCEPT
                           !.frame = "f_input", !.override = o, !.hard_block = FALSE,
                           !.texts = texts, !.hit_summary = [skin_trigger |-> skin]]
                   ELSE ReqIdle]
    /\ final = [w \in Workers |-> None]
    /\ obs = [w \in Workers |-> ObsIdle]
    /\ prev = [f \in Frames |-> {}]
    /\ begun = 1

SpecRule == InitRule /\ [][NextFuse]_vars

(***************************************************************************)
(* SpecConc: two detect_and_judge calls on the same frame, on two workers  *)
(* that share the engine and the reviewer; their steps interleave freely   *)
(* (the caches and the call list have no lock).                            *)
(***************************************************************************)
MaxConcTime == 1
MaxConcRequests == 2

NextConc ==
    \/ Tick(MaxConcTime)
    \/ /\ begun < MaxConcRequests
       /\ \E w \in Workers, f \in CacheFrames : Begin(w, f, None, FALSE)
    \/ \E w \in Workers : L2Text(w)
    \/ \E w \in Workers : L2Sex(w)
    \/ \E w \in Workers, resp \in Responses : CallReturn(w, resp)
    \/ \E w \in Workers : Fuse(w)
    \/ \E w \in Workers : Return(w)

SpecConc == Init /\ [][NextConc]_vars

(***************************************************************************)
(* Properties.                                                             *)
(***************************************************************************)
\* The call of worker w has returned a decision; fused: not by the veto.
Decided(w) == pc[w] = "done" /\ ~req[w].direct /\ final[w] # None
Fused(w) == Decided(w) /\ "chosen_category" \in DOMAIN final[w][1].evidence

\* A detection label of frame f is, trimmed and lower-cased, a hard-block label.
HasHardLabel(f) ==
    \E i \in 1..Len(process_frame(f).objects) :
        Lower(Strip(process_frame(f).objects[i])) \in HARD_BLOCK_LABELS

\* The record the fusion chose for the call of worker w.
ChosenOf(w) == Candidates(req[w].l2_text_res, req[w].l2_sex_res)[1].rec
HasCandidate(w) == Candidates(req[w].l2_text_res, req[w].l2_sex_res) # <<>>

\* The record has evidence spans or visual evidence text.
Grounded(rec) == rec.evidence_spans # <<>> \/ Strip(rec.visual_evidence) # ""

\* C1: a detect_and_judge call with l1_hard_block = true on a frame with a
\* hard-block label among its detections goes straight to its decision, which
\* is block with score 95, whatever the texts and the skin trigger are, and
\* neither review_from_l1 nor review_visual_sexual (nor the backend) is called.
C1_HardBlockPrecedence ==
    \A w \in Workers :
        (req[w].frame \in Frames /\ ~req[w].direct /\ req[w].hard_block
         /\ HasHardLabel(req[w].frame)) =>
            /\ pc[w] = "done"
            /\ final[w] # None
            /\ final[w][1].action = "block"
            /\ final[w][1].risk_score = 95
            /\ req[w].invoked = {}
            /\ req[w].remote_calls = 0

\* A vetoed call on a frame that also has text and the skin trigger.
C1_Witness ==
    \E w \in Workers :
        /\ Decided(w) /\ req[w].hard_block /\ HasHardLabel(req[w].frame)
        /\ req[w].texts # <<>>
        /\ req[w].hit_summary.skin_trigger
        /\ final[w][1].action = "block"

\* C2: a fused decision whose chosen record has evidence_strength < 2, or has
\* neither evidence spans nor visual evidence text, has a score of at most 30
\* and the action pass, whatever the raw score and the threshold.
C2_Suppression ==
    \A w \in Workers :
        (Fused(w) /\ HasCandidate(w)
         /\ (ChosenOf(w).evidence_strength < 2 \/ ~Grounded(ChosenOf(w)))) =>
            /\ final[w][1].risk_score <= 30
            /\ final[w][1].action = "pass"

\* A record of strength 2 without evidence and with a raw score above the
\* threshold in force is chosen and capped.
C2_Witness ==
    \E w \in Workers :
        /\ Fused(w) /\ HasCandidate(w)
        /\ ChosenOf(w).evidence_strength >= 2 /\ ~Grounded(ChosenOf(w))
        /\ ChosenOf(w).risk_score >
             Threshold(policy_rules, ChosenOf(w).category, req[w].override)
        /\ final[w][1].risk_score = 30

\* C3 as stated: no call of detect_and_judge ends in an exception.
C3_NeverRaises == \A w \in Workers : pc[w] # "raised"

\* C4 as stated: a chosen record with is_whitelist = true and
\* evidence_strength >= 2 whose score is at or above the threshold blocks.
C4_AsStated ==
    \A w \in Workers :
        (Fused(w) /\ HasCandidate(w)
         /\ ChosenOf(w).is_whitelist /\ ChosenOf(w).evidence_strength >= 2
         /\ ChosenOf(w).risk_score >=
              Threshold(policy_rules, ChosenOf(w).category, req[w].override)) =>
            final[w][1].action = "block"

\* C4: a chosen record with is_whitelist = true and evidence_strength >= 2
\* that has evidence spans or visual evidence text (so is not suppressed) and
\* whose score is at or above the threshold blocks: the flag does not shield it.
C4_WhitelistOverride ==
    \A w \in Workers :
        (Fused(w) /\ HasCandidate(w)
         /\ ChosenOf(w).is_whitelist /\ ChosenOf(w).evidence_strength >= 2
         /\ Grounded(ChosenOf(w))
         /\ ChosenOf(w).risk_score >=
              Threshold(policy_rules, ChosenOf(w).category, req[w].override)) =>
            /\ final[w][1].action = "block"
            /\ final[w][1].risk_score = ChosenOf(w).risk_score

\* A whitelisted text record with spans blocks.
C4_Witness ==
    \E w \in Workers :
        /\ Fused(w) /\ HasCandidate(w)
        /\ ChosenOf(w).is_whitelist /\ ChosenOf(w).evidence_strength >= 2
        /\ ChosenOf(w).evidence_spans # <<>>
        /\ final[w][1].action = "block"

\* The action of the call of worker w had its override been t.
ActionAt(w, t) ==
    Fusion(req[w].l2_text_res, req[w].l2_sex_res, Some(t), policy_rules).action

\* C5: for the records of a fused decision, the action as a function of the
\* override is monotone: pass at t is pass at every larger t', so no raise
\* turns a pass into a block, and every override above the chosen score passes.
C5_ThresholdMonotone ==
    \A w \in Workers :
        (Fused(w) /\ HasCandidate(w)) =>
            LET blocking == {t \in 0..MaxThreshold : ActionAt(w, t) # "pass"}
            IN  /\ \A t \in blocking : \A u \in 0..t : u \in blocking
                /\ \A t \in blocking : t <= ChosenOf(w).risk_score
                /\ req[w].override # None =>
                      (final[w][1].action # "pass") = (req[w].override[1] \in blocking)

\* A decision that blocks under its override and passes under a larger one.
C5_Witness ==
    \E w \in Workers :
        /\ Fused(w) /\ HasCandidate(w)
        /\ req[w].override # None
        /\ final[w][1].action = "block"
        /\ ChosenOf(w).risk_score < MaxThreshold
        /\ ActionAt(w, ChosenOf(w).risk_score + 1) = "pass"

InCall(w) == pc[w] \in {"text_call", "sex_call"}

\* A lookup L of the last step of worker w in a cache with the given cooldown:
\* what is returned is a present entry no older than the time-to-live, and a
\* present entry younger than the cooldown is returned, with no backend call.
LookupOk(w, L, cooldown) ==
    /\ L.hit => (L.present /\ L.age <= vl_cache_ttl_sec /\ obs[w].out = L.entry)
    /\ (L.present /\ L.age < cooldown) =>
          (L.hit /\ obs[w].out = L.entry /\ ~InCall(w))

\* C6: a lookup in the gateway cache (_vl_cache) or in the engine cache
\* (_l2_cache) never returns an entry older than the time-to-live, and always
\* returns an entry younger than the cooldown, and then no backend call is made.
C6_CacheTtlCooldown ==
    \A w \in Workers :
        /\ obs[w].l2 # NoLookup =>
              /\ LookupOk(w, obs[w].l2[1], l2_cooldown)
              /\ obs[w].l2[1].hit => obs[w].gateway = "none"
        /\ obs[w].vl # NoLookup =>
              /\ LookupOk(w, obs[w].vl[1], vl_cooldown_sec)
              /\ obs[w].vl[1].hit => obs[w].gateway = "hit"

\* The gateway cache answers within the cooldown, with a record of the backend.
C6_Witness ==
    \E w \in Workers :
        /\ obs[w].vl # NoLookup
        /\ obs[w].vl[1].hit
        /\ obs[w].vl[1].age > 0
        /\ obs[w].out # None
        /\ obs[w].out[1].risk_score > 0

\* C7: the gateway, asked on a cache miss when it is disabled or when the
\* calls of the last VL_WINDOW_SEC seconds number vl_max_calls_per_min, returns
\* the neutral record (Normal, 0), calls no backend and adds no timestamp.
C7_RateLimitedFallback ==
    \A w \in Workers :
        (obs[w].vl # NoLookup /\ ~obs[w].vl[1].hit
         /\ (~vl_enabled \/ obs[w].window_fresh >= vl_max_calls_per_min)) =>
            /\ obs[w].gateway = "fallback"
            /\ obs[w].out # None
            /\ obs[w].out[1].category = "Normal"
            /\ obs[w].out[1].risk_score = 0
            /\ ~InCall(w)
            /\ obs[w].window_after <= obs[w].window_before
            /\ Len(vl_call_times) = obs[w].window_after

\* The enabled gateway refuses a call because the window is full.
C7_Witness ==
    \E w \in Workers :
        /\ vl_enabled
        /\ obs[w].vl # NoLookup /\ ~obs[w].vl[1].hit
        /\ obs[w].window_fresh >= vl_max_calls_per_min
        /\ obs[w].gateway = "fallback"

NoSignal(f) ==
    /\ process_frame(f).texts = <<>>
    /\ process_frame(f).objects = <<>>
    /\ ~Get(process_frame(f).hit_summary, "skin_trigger", FALSE)

\* C9: a call on a frame without text, detections and skin trigger (an
\* unreadable frame included) asks for no review, has no candidate, and decides
\* pass with score 0, category Normal and the no-risk-signal reason.
C9_NoSignal ==
    \A w \in Workers :
        (req[w].frame \in Frames /\ ~req[w].direct /\ NoSignal(req[w].frame)) =>
            /\ pc[w] \in {"l2_text", "l2_sex", "fuse", "done"}
            /\ req[w].invoked = {}
            /\ req[w].l2_text_res = None /\ req[w].l2_sex_res = None
            /\ Decided(w) =>
                  /\ final[w][1].action = "pass"
                  /\ final[w][1].risk_score = 0
                  /\ final[w][1].reason = <<"clean">>
                  /\ final[w][1].evidence.chosen_category = "Normal"

\* A decided call on the unreadable frame.
C9_Witness ==
    \E w \in Workers :
        /\ Decided(w) /\ req[w].frame \in Frames
        /\ ~Readable(req[w].frame)
        /\ final[w][1].action = "pass"

\* The texts of the scenario: 加v 看福利 and 私聊.
ContactTexts == << <<"jia_v", "kan", "fuli">>, <<"siliao">> >>

\* A decided call on a frame with the texts of the scenario and no detection,
\* under a threshold of 80 for the category Ad.
ContactScenario(w) ==
    /\ Decided(w) /\ req[w].frame \in Frames
    /\ process_frame(req[w].frame).texts = ContactTexts
    /\ process_frame(req[w].frame).objects = <<>>
    /\ Threshold(policy_rules, "Ad", req[w].override) = 80

\* C10 as stated: the decision of the scenario is pass with score 70 and a
\* reason that cites the spans 加v or 私聊.
C10_AsStated ==
    \A w \in Workers :
        ContactScenario(w) =>
            /\ final[w][1].action = "pass"
            /\ final[w][1].risk_score = 70
            /\ \E i \in 1..Len(final[w][1].reason) :
                  final[w][1].reason[i] \in {"jia_v", "siliao"}

\* C10: in the scenario the extractor yields Ad, strength 2, score 70 with the
\* spans 加v and 私聊; the decision is pass with score 70 (not capped), its
\* reason is the fixed below-threshold text, and the spans are carried by
\* evidence.l2_text.evidence_spans.
C10_BelowThreshold ==
    \A w \in Workers :
        ContactScenario(w) =>
            /\ _extract_rule(ContactTexts).category = "Ad"
            /\ _extract_rule(ContactTexts).evidence_strength = 2
            /\ _extract_rule(ContactTexts).risk_score = 70
            /\ final[w][1].action = "pass"
            /\ final[w][1].risk_score = 70
            /\ final[w][1].reason = <<"below">>
            /\ final[w][1].evidence.l2_text # None
            /\ final[w][1].evidence.l2_text[1].evidence_spans = <<"jia_v", "siliao">>

\* The scenario decided under the default threshold (Ad is not in the policy).
C10_Witness ==
    \E w \in Workers :
        /\ ContactScenario(w)
        /\ req[w].override = None
        /\ final[w][1].risk_score = 70

\* The gateway-cache entries that were built from a backend response (their
\* reason carries the vl_ms of the call).
FromBackend(rec) == Len(rec.reason) = 2

\* C11 as stated: every record built from a backend response and stored in the
\* gateway cache has risk_score in 0..100 and evidence_strength in 0..3, and
\* the risk_score of every decision is in 0..100.
C11_AsStated ==
    /\ \A k \in DOMAIN vl_cache :
          FromBackend(vl_cache[k][2]) =>
              /\ vl_cache[k][2].risk_score \in 0..100
              /\ vl_cache[k][2].evidence_strength \in 0..3
    /\ \A w \in Workers :
          Decided(w) => final[w][1].risk_score \in 0..100

\* C12 as stated: at every moment the backend was invoked at most
\* vl_max_calls_per_min times over the window that ends now, failed
\* invocations included.
C12_AsStated == Len(StillInWindow(vl_issued, now)) <= vl_max_calls_per_min

\* The key the gateway was last asked under by worker w.
GatewayKey(w) == IF obs[w].vl # NoLookup THEN obs[w].vl[1].key ELSE req[w].call.key

\* C13 as stated: every record the gateway hands back, from a cache hit, from
\* the fallback or from a backend call, is in the cache under its key with the
\* timestamp of the moment it is handed back.
C13_AsStated ==
    \A w \in Workers :
        (obs[w].gateway \in {"hit", "fallback", "returned"} /\ obs[w].out # None) =>
            /\ GatewayKey(w) \in DOMAIN vl_cache
            /\ vl_cache[GatewayKey(w)] = <<now, obs[w].out[1]>>

\* C13: a record of the fallback or of a backend call is stored under its key
\* with the timestamp of the moment it is handed back; a record of a cache hit
\* is handed back from the entry, which keeps the timestamp it had.
C13_WriteBack ==
    \A w \in Workers :
        (obs[w].gateway \in {"hit", "fallback", "returned"} /\ obs[w].out # None) =>
            /\ GatewayKey(w) \in DOMAIN vl_cache
            /\ vl_cache[GatewayKey(w)] =
                  <<IF obs[w].gateway = "hit" THEN now - obs[w].vl[1].age ELSE now,
                    obs[w].out[1]>>

\* A cache hit on an entry stored earlier: the entry is as old as it was.
C13_Witness ==
    \E w \in Workers :
        /\ obs[w].gateway = "hit"
        /\ obs[w].vl[1].age > 0
        /\ vl_cache[GatewayKey(w)][1] < now

\* The records the two reviews of worker w's call produced.
Produced(w) ==
    {req[w].l2_text_res[i] : i \in 1..Len(req[w].l2_text_res)}
        \cup {req[w].l2_sex_res[i] : i \in 1..Len(req[w].l2_sex_res)}

\* The record and the source the decision of worker w went by.
DecidedBy(w) ==
    Fusion(req[w].l2_text_res, req[w].l2_sex_res, req[w].override, policy_rules).chosen

\* C14: when a review produced a record, the decision goes by one produced
\* record whose risk_score no other produced record exceeds, the text record
\* when it has that score; chosen_category is that record's category, the
\* decision's score is that record's score (at most 30 when it is suppressed),
\* and a block names the source of that record.
C14_FusionSelection ==
    \A w \in Workers :
        (Fused(w) /\ Produced(w) # {}) =>
            /\ DecidedBy(w) # None
            /\ LET chosen == DecidedBy(w)[1]
                   dec == final[w][1]
               IN  /\ chosen \in Produced(w)
                   /\ \A rec \in Produced(w) : rec.risk_score <= chosen.risk_score
                   /\ (req[w].l2_text_res # None
                       /\ req[w].l2_text_res[1].risk_score = chosen.risk_score) =>
                          chosen = req[w].l2_text_res[1]
                   /\ dec.evidence.chosen_category = chosen.category
                   /\ dec.risk_score =
                          IF chosen.evidence_strength < 2 \/ ~Grounded(chosen)
                          THEN Min(chosen.risk_score, MAX_SCORE_WITHOUT_EVIDENCE)
                          ELSE chosen.risk_score
                   /\ dec.action = "block" =>
                          dec.reason[2] = IF req[w].l2_text_res = Some(chosen)
                                          THEN "text" ELSE "sex"

\* Both reviews produced a record, of the same positive score and of different
\* categories, and the decision is a block.
C14_Witness ==
    \E w \in Workers :
        /\ Fused(w)
        /\ req[w].l2_text_res # None /\ req[w].l2_sex_res # None
        /\ req[w].l2_text_res[1].risk_score = req[w].l2_sex_res[1].risk_score
        /\ req[w].l2_text_res[1].risk_score > 0
        /\ req[w].l2_text_res[1].category # req[w].l2_sex_res[1].category
        /\ final[w][1].action = "block"

\* The decision of worker w went by a record that is not suppressed.
ChosenUnsuppressed(w) ==
    /\ Fused(w) /\ HasCandidate(w)
    /\ ChosenOf(w).evidence_strength >= 2
    /\ Grounded(ChosenOf(w))

\* C15: for a chosen record that is not suppressed, the threshold is the
\* override when one is passed, else the risk_threshold of the category's rule,
\* else 80 (no rule for the category, or a rule without a threshold); the
\* action is block exactly when the score is at or above that threshold and
\* the record's whitelist flag, after the override by strength >= 2, is not
\* set, and pass otherwise; the decision carries the record's score.
C15_ThresholdSelection ==
    \A w \in Workers :
        ChosenUnsuppressed(w) =>
            LET chosen == ChosenOf(w)
                rules == policy_rules
                threshold ==
                    IF req[w].override # None THEN req[w].override[1]
                    ELSE IF chosen.category \in DOMAIN rules
                            /\ "risk_threshold" \in DOMAIN rules[chosen.category]
                         THEN rules[chosen.category].risk_threshold
                         ELSE 80
                whitelisted == chosen.is_whitelist /\ ~(chosen.evidence_strength >= 2)
            IN  /\ final[w][1].action =
                      IF chosen.risk_score >= threshold /\ ~whitelisted
                      THEN "block" ELSE "pass"
                /\ final[w][1].risk_score = chosen.risk_score

\* Without an override, a record whose score equals the threshold of its
\* category's rule blocks.
C15_Witness ==
    \E w \in Workers :
        /\ ChosenUnsuppressed(w)
        /\ req[w].override = None
        /\ ChosenOf(w).category \in DOMAIN policy_rules
        /\ "risk_threshold" \in DOMAIN policy_rules[ChosenOf(w).category]
        /\ ChosenOf(w).risk_score = policy_rules[ChosenOf(w).category].risk_threshold
        /\ final[w][1].action = "block"

\* C16 as stated: without an override, a chosen record that is not suppressed
\* and whose category has no rule in the policy mapping is compared with the
\* threshold of the Normal rule; after a policy load failure (the mapping is
\* the single Normal rule with threshold 999) no such record blocks.
C16_AsStated ==
    \A w \in Workers :
        (ChosenUnsuppressed(w) /\ req[w].override = None
         /\ ChosenOf(w).category \notin DOMAIN policy_rules
         /\ "Normal" \in DOMAIN policy_rules) =>
            final[w][1].action =
                IF ChosenOf(w).risk_score >= policy_rules["Normal"].risk_threshold
                THEN "block" ELSE "pass"

\* C16: without an override, a chosen record that is not suppressed and whose
\* category has no rule in the policy mapping is compared with 80, whatever
\* the Normal rule says; after a policy load failure (the mapping is the
\* single Normal rule with threshold 999) such a record of another category
\* blocks exactly when its score is 80 or more, and a Normal record passes.
C16_PolicyFallback ==
    \A w \in Workers :
        (ChosenUnsuppressed(w) /\ req[w].override = None) =>
            /\ ChosenOf(w).category \notin DOMAIN policy_rules =>
                  final[w][1].action =
                      IF ChosenOf(w).risk_score >= 80 THEN "block" ELSE "pass"
            /\ (policy_rules = PolicyLoadFailed /\ ChosenOf(w).category = "Normal") =>
                  final[w][1].action =
                      IF ChosenOf(w).risk_score >= 999 THEN "block" ELSE "pass"

\* After a policy load failure a record of a category other than Normal blocks
\* with a score below the threshold of the Normal rule.
C16_Witness ==
    \E w \in Workers :
        /\ ChosenUnsuppressed(w) /\ req[w].override = None
        /\ policy_rules = PolicyLoadFailed
        /\ ChosenOf(w).category # "Normal"
        /\ ChosenOf(w).risk_score < policy_rules["Normal"].risk_threshold
        /\ final[w][1].action = "block"

\* The tokens of the recognized text of worker w's call.
TokensOf(w) ==
    UNION {{req[w].texts[i][j] : j \in 1..Len(req[w].texts[i])} :
              i \in 1..Len(req[w].texts)}

\* The (category, strength, score) the priority list of C17 gives the flags.
FirstMatch(gambling, sexual, phone, id, hint, digits) ==
    IF gambling THEN <<"Gambling", 3, 90>>
    ELSE IF sexual THEN <<"Sex", 2, 80>>
    ELSE IF phone \/ id \/ (hint /\ digits) THEN <<"Ad", 3, 92>>
    ELSE IF hint \/ digits THEN <<"Ad", 2, 70>>
    ELSE <<"Normal", 0, 0>>

\* C17: for every combination of the six pattern flags the classification is
\* the first match of the list Gambling 3/90, Sex 2/80, Ad 3/92 (phone, or
\* numeric ID, or contact hint with a long digit run), Ad 2/70 (contact hint or
\* long digit run), Normal 0/0; and the record review_from_l1 returns for a
\* text carries the first match of the flags that the tokens of the text raise.
C17_FirstMatchPriority ==
    /\ \A g, s, p, q, h, l \in BOOLEAN :
          LET c == Classify(g, s, p, q, h, l)
          IN  <<c.category, c.strength, c.score>> = FirstMatch(g, s, p, q, h, l)
    /\ \A w \in Workers :
          (pc[w] \in {"l2_sex", "sex_call", "fuse", "done"} /\ req[w].l2_text_res # None) =>
              LET toks == TokensOf(w)
                  rec == req[w].l2_text_res[1]
              IN  <<rec.category, rec.evidence_strength, rec.risk_score>> =
                      FirstMatch("xiazhu" \in toks, "yue" \in toks,
                                 "13812345678" \in toks, "qq12345" \in toks,
                                 "jia_v" \in toks,
                                 toks \cap {"13812345678", "12345678"} # {})

\* A text with a gambling keyword, a sexual term, a phone number, a numeric ID
\* and a contact hint is Gambling 3/90, below the 92 of its Ad matches.
C17_Witness ==
    \E w \in Workers :
        /\ pc[w] = "l2_sex" /\ req[w].l2_text_res # None
        /\ {"xiazhu", "yue", "13812345678", "qq12345", "jia_v"} \subseteq TokensOf(w)
        /\ req[w].l2_text_res[1].category = "Gambling"
        /\ req[w].l2_text_res[1].risk_score = 90

\* review_from_l1 ran in the last step of worker w (the engine cache did not
\* answer), and the condition under which C18 has it ask the gateway.
TextReviewed(w) ==
    /\ pc[w] \in {"l2_sex", "text_call"}
    /\ "review_from_l1" \in req[w].invoked

Escalates(w) ==
    LET rule == _extract_rule(req[w].texts)
    IN  /\ vl_enabled
        /\ rule.risk_score >= 60
        /\ Len(rule.evidence_spans) = 0
        /\ rule.evidence_strength = 0
        /\ _frame_md5(req[w].frame) # NoMd5

\* C18: review_from_l1 asks the gateway only when the extractor's record has
\* no evidence span, strength 0 and a score of 60 or more, VL is enabled and
\* the frame has a fingerprint, and asks it then when the image can be read;
\* in every other case it returns the extractor's category, score, strength
\* and spans, the gateway is not asked and no backend call is made.
C18_TextEscalationGating ==
    \A w \in Workers :
        TextReviewed(w) =>
            /\ (pc[w] = "text_call" \/ obs[w].gateway # "none") => Escalates(w)
            /\ (Escalates(w) /\ Encodable(req[w].frame)) => obs[w].gateway # "none"
            /\ ~Escalates(w) =>
                  LET rule == _extract_rule(req[w].texts)
                      rec == req[w].l2_text_res[1]
                  IN  /\ pc[w] = "l2_sex"
                      /\ req[w].l2_text_res # None
                      /\ rec.category = rule.category
                      /\ rec.risk_score = rule.risk_score
                      /\ rec.evidence_strength = rule.evidence_strength
                      /\ rec.evidence_spans = rule.evidence_spans
                      /\ req[w].remote_calls = 0
                      /\ vl_issued = <<>>

\* With VL enabled, a text whose score is at the floor and below 90 comes back
\* with the extractor's record and no backend call.
C18_Witness ==
    \E w \in Workers :
        /\ TextReviewed(w) /\ pc[w] = "l2_sex"
        /\ vl_enabled
        /\ _frame_md5(req[w].frame) # NoMd5
        /\ req[w].l2_text_res[1].risk_score >= 60
        /\ req[w].l2_text_res[1].risk_score < 90
        /\ req[w].l2_text_res[1].evidence_spans # <<>>
        /\ obs[w].gateway = "none"
        /\ vl_issued = <<>>

\* The call of worker w, not stopped by the veto, is past line 174.
PastVisualStep(w) ==
    /\ ~req[w].direct
    /\ pc[w] \in {"sex_call", "raised", "fuse"} \/ Fused(w)

\* The visual path was entered: review_visual_sexual ran or the engine cache
\* answered under the frame's l2_sex key.
VisualEntered(w) ==
    \/ "review_visual_sexual" \in req[w].invoked
    \/ req[w].l2_sex_res # None

\* C19: in a call that the veto did not stop, the visual path is entered if
\* and only if hit_summary has skin_trigger = true, whatever the texts, the
\* labels and the text record are; without it there is no visual record among
\* the candidates and no backend call for the visual review.
C19_VisualGating ==
    \A w \in Workers :
        PastVisualStep(w) =>
            LET skin == "skin_trigger" \in DOMAIN req[w].hit_summary
                        /\ req[w].hit_summary.skin_trigger
            IN  /\ VisualEntered(w) <=> skin
                /\ ~skin =>
                      /\ req[w].l2_sex_res = None
                      /\ pc[w] \notin {"sex_call", "raised"}
                      /\ req[w].remote_calls = 0
                      /\ \A i \in 1..Len(Candidates(req[w].l2_text_res, req[w].l2_sex_res)) :
                            Candidates(req[w].l2_text_res, req[w].l2_sex_res)[i].src # "sex"

\* Text was recognized, its record is a strong one, and without the skin
\* trigger the decision is taken with no visual record.
C19_Witness ==
    \E w \in Workers :
        /\ Fused(w)
        /\ ~Get(req[w].hit_summary, "skin_trigger", FALSE)
        /\ req[w].l2_text_res # None
        /\ req[w].l2_text_res[1].risk_score >= 80
        /\ final[w][1].evidence.l2_sex = None

\* C20: a request that finds no usable entry for its key, with the gateway
\* enabled and fewer than vl_max_calls_per_min timestamps in the window, calls
\* the backend, whether or not another request's call for the same key is in
\* flight: asking for a call adds no timestamp to the call list and no entry
\* to the cache, so two concurrent requests for an unseen fingerprint both
\* miss and both call.
C20_UncoalescedMisses ==
    \A w \in Workers :
        /\ (obs[w].vl # NoLookup /\ ~obs[w].vl[1].hit /\ vl_enabled
            /\ obs[w].window_fresh < vl_max_calls_per_min) =>
               (InCall(w) /\ obs[w].gateway = "call")
        /\ InCall(w) =>
               /\ obs[w].gateway = "call"
               /\ obs[w].vl # NoLookup /\ ~obs[w].vl[1].hit
               /\ obs[w].window_after <= obs[w].window_before

\* Both workers missed the cache on the same unseen fingerprint and both have
\* a backend call in flight, more calls than the limiter allows in a window.
C20_Witness ==
    /\ \A w \in Workers :
          /\ pc[w] = "sex_call"
          /\ obs[w].vl # NoLookup /\ ~obs[w].vl[1].present
          /\ obs[w].gateway = "call"
    /\ req["w1"].frame = req["w2"].frame
    /\ req["w1"].call.key = req["w2"].call.key
    /\ Len(vl_issued) = 2
    /\ Len(vl_issued) > vl_max_calls_per_min

\* The (score, strength) pairs C21 lists for the rule extractor.
RulePairs == {<<0, 0>>, <<70, 2>>, <<80, 2>>, <<90, 3>>, <<92, 3>>}

\* C21: the classification of the rule extractor gives only the pairs
\* (score, strength) (0,0), (70,2), (80,2), (90,3), (92,3), so a score of 60
\* or more never comes with strength 0; review_from_l1 never asks the gateway
\* and never has a backend call in flight, no entry is stored under a vl_text
\* key, and the text record of a call is the extractor's record.
C21_TextCallUnreachable ==
    /\ \A g, s, p, q, h, l \in BOOLEAN :
          LET c == Classify(g, s, p, q, h, l)
          IN  /\ <<c.score, c.strength>> \in RulePairs
              /\ ~(c.score >= 60 /\ c.strength = 0)
    /\ \A w \in Workers :
          /\ pc[w] # "text_call"
          /\ TextReviewed(w) =>
                /\ obs[w].gateway = "none" /\ obs[w].vl = NoLookup
                /\ req[w].remote_calls = 0
          /\ (req[w].l2_text_res # None /\ ~req[w].direct) =>
                LET rule == _extract_rule(req[w].texts)
                    rec == req[w].l2_text_res[1]
                IN  /\ <<rec.risk_score, rec.evidence_strength>> \in RulePairs
                    /\ rec.risk_score > 0 => rec.evidence_spans # <<>>
                    /\ rec = RuleRecord(rule, _is_phrase_whitelist(rule.full_text_raw),
                                        rec.reason)
    /\ \A k \in DOMAIN vl_cache :
          \A f \in Frames \cup {"f_input"}, c \in {"Normal", "Ad", "Sex", "Gambling"} :
              k # f \o ":vl_text:" \o c

\* With VL enabled and a fingerprint, a text in which no pattern matches has
\* no span and strength 0, the only such record, and its score 0 is below the
\* floor: the extractor's record comes back and the gateway is not asked.
C21_Witness ==
    \E w \in Workers :
        /\ TextReviewed(w) /\ pc[w] = "l2_sex"
        /\ vl_enabled
        /\ _frame_md5(req[w].frame) # NoMd5
        /\ req[w].texts # <<>>
        /\ req[w].l2_text_res[1].evidence_strength = 0
        /\ req[w].l2_text_res[1].evidence_spans = <<>>
        /\ req[w].l2_text_res[1].risk_score = 0
        /\ obs[w].gateway = "none"

\* A hard-block label is among the detections of worker w's call.
HardLabelSeen(w) ==
    IF req[w].frame \in Frames THEN HasHardLabel(req[w].frame)
    ELSE \E i \in 1..Len(req[w].labels) : req[w].labels[i] \in HARD_BLOCK_LABELS

\* C22: a returned decision that blocks is either the veto (l1_hard_block is
\* true, a hard-block label was detected, risk_score 95) or goes by a chosen
\* record with evidence_strength >= 2, with an evidence span or visual
\* evidence text, and a score at or above the threshold in force (override,
\* else the rule's risk_threshold, else 80), which is the decision's score.
C22_BlockGrounded ==
    \A w \in Workers :
        (Decided(w) /\ final[w][1].action = "block") =>
            \/ /\ ~Fused(w)
               /\ req[w].hard_block
               /\ HardLabelSeen(w)
               /\ final[w][1].risk_score = 95
            \/ /\ Fused(w) /\ Produced(w) # {}
               /\ DecidedBy(w) # None
               /\ LET chosen == DecidedBy(w)[1]
                      threshold ==
                          IF req[w].override # None THEN req[w].override[1]
                          ELSE IF chosen.category \in DOMAIN policy_rules
                                  /\ "risk_threshold" \in DOMAIN policy_rules[chosen.category]
                               THEN policy_rules[chosen.category].risk_threshold
                               ELSE 80
                  IN  /\ chosen \in Produced(w)
                      /\ chosen.evidence_strength >= 2
                      /\ chosen.evidence_spans # <<>> \/ Strip(chosen.visual_evidence) # ""
                      /\ chosen.risk_score >= threshold
                      /\ final[w][1].risk_score = chosen.risk_score

\* A block that is not the veto and rests on visual evidence text alone.
C22_Witness ==
    \E w \in Workers :
        /\ Fused(w) /\ final[w][1].action = "block"
        /\ DecidedBy(w) # None
        /\ DecidedBy(w)[1].evidence_spans = <<>>
        /\ DecidedBy(w)[1].visual_evidence # ""
        /\ final[w][1].risk_score < 95

\* The record is weakly grounded: strength below 2, or no evidence.
Weak(rec) == rec.evidence_strength < 2 \/ ~Grounded(rec)

\* The threshold in force for a record of the call of worker w.
InForce(w, rec) ==
    IF req[w].override # None THEN req[w].override[1]
    ELSE IF rec.category \in DOMAIN policy_rules
            /\ "risk_threshold" \in DOMAIN policy_rules[rec.category]
         THEN policy_rules[rec.category].risk_threshold
         ELSE 80

\* The decision the call of worker w would have had with the text record
\* alone, and with the visual record alone.
Alone(w, rec) ==
    IF req[w].l2_text_res = Some(rec)
    THEN Fusion(req[w].l2_text_res, None, req[w].override, policy_rules)
    ELSE Fusion(None, req[w].l2_sex_res, req[w].override, policy_rules)

\* C23: when a weakly grounded record has a strictly higher score than a
\* strongly grounded one whose score is at or above its threshold, the
\* decision is pass with the weak record's score capped at 30 and the weak
\* record's category, the same action, score and reason as if the strong
\* record had not been produced.
C23_SuppressionAfterSelection ==
    \A w \in Workers :
        Fused(w) =>
            \A weak, strong \in Produced(w) :
                (Weak(weak) /\ ~Weak(strong)
                 /\ weak.risk_score > strong.risk_score
                 /\ strong.risk_score >= InForce(w, strong)) =>
                    /\ final[w][1].action = "pass"
                    /\ final[w][1].risk_score <= 30
                    /\ final[w][1].risk_score = Min(weak.risk_score, 30)
                    /\ final[w][1].evidence.chosen_category = weak.category
                    /\ final[w][1].action = Alone(w, weak).action
                    /\ final[w][1].risk_score = Alone(w, weak).risk_score
                    /\ final[w][1].reason = Alone(w, weak).reason

\* The text record is strong and would block alone; the visual record is weak
\* with a higher score, and the decision is pass.
C23_Witness ==
    \E w \in Workers :
        /\ Fused(w)
        /\ req[w].l2_text_res # None /\ req[w].l2_sex_res # None
        /\ ~Weak(req[w].l2_text_res[1]) /\ Weak(req[w].l2_sex_res[1])
        /\ req[w].l2_sex_res[1].risk_score > req[w].l2_text_res[1].risk_score
        /\ Alone(w, req[w].l2_text_res[1]).action = "block"
        /\ final[w][1].action = "pass"
        /\ final[w][1].risk_score = 30

\* The result of a review with the is_whitelist flag of its record turned over.
FlagTurned(res) ==
    IF res = None THEN None ELSE Some([res[1] EXCEPT !.is_whitelist = ~@])

\* The decisions of the call of worker w with the flag of the text record, of
\* the visual record, or of both turned over.
FlagVariants(w) ==
    {Fusion(t, x, req[w].override, policy_rules) :
        t \in {req[w].l2_text_res, FlagTurned(req[w].l2_text_res)},
        x \in {req[w].l2_sex_res, FlagTurned(req[w].l2_sex_res)}}

\* C24: the action, the score and the reason of a decision do not depend on
\* the is_whitelist flag of the records: with the flag of the chosen record
\* (or of the other one) turned over they are the same, and the decision is
\* what the score, the strength, the evidence and the threshold alone give.
C24_WhitelistNoEffect ==
    \A w \in Workers :
        (Fused(w) /\ Produced(w) # {}) =>
            /\ \A d \in FlagVariants(w) :
                  /\ d.action = final[w][1].action
                  /\ d.risk_score = final[w][1].risk_score
                  /\ d.reason = final[w][1].reason
            /\ LET chosen == DecidedBy(w)[1]
               IN  final[w][1].action =
                       IF ~Weak(chosen) /\ chosen.risk_score >= InForce(w, chosen)
                       THEN "block" ELSE "pass"

\* A text with a benign phrase: its record is flagged, is not suppressed and
\* blocks, as it does with the flag turned over.
C24_Witness ==
    \E w \in Workers :
        /\ Fused(w)
        /\ req[w].l2_text_res # None
        /\ DecidedBy(w) = req[w].l2_text_res
        /\ req[w].l2_text_res[1].is_whitelist
        /\ ~Weak(req[w].l2_text_res[1])
        /\ final[w][1].action = "block"
        /\ Fusion(FlagTurned(req[w].l2_text_res), req[w].l2_sex_res, req[w].override,
                  policy_rules).action = "block"

\* The policy mapping with the action of every rule set to a.
WithAction(policy, a) == [c \in DOMAIN policy |-> [policy[c] EXCEPT !.action = a]]

\* C25: the action of every returned decision is pass or block, never warn,
\* and the decision does not depend on the action field of the policy rules:
\* with every rule's action set to pass, to warn or to block the fusion gives
\* the same action, score, reason and category.
C25_TwoActions ==
    \A w \in Workers :
        Decided(w) =>
            /\ final[w][1].action \in {"pass", "block"}
            /\ Fused(w) =>
                  \A a \in {"pass", "warn", "block"} :
                      LET d == Fusion(req[w].l2_text_res, req[w].l2_sex_res,
                                      req[w].override, WithAction(policy_rules, a))
                      IN  /\ d.action = final[w][1].action
                          /\ d.risk_score = final[w][1].risk_score
                          /\ d.reason = final[w][1].reason
                          /\ d.chosen_category = final[w][1].evidence.chosen_category

\* The rule of the chosen category has action warn and its threshold is
\* reached: the decision is block.
C25_Witness ==
    \E w \in Workers :
        /\ Fused(w) /\ DecidedBy(w) # None
        /\ req[w].override = None
        /\ DecidedBy(w)[1].category \in DOMAIN policy_rules
        /\ policy_rules[DecidedBy(w)[1].category].action = "warn"
        /\ final[w][1].action = "block"

=============================================================================
